---- MODULE Spec2Model ----
(***************************************************************************)
(* Model of visio_to_markdown_standalone.py (VisioToMarkdownConverter).    *)
(*                                                                         *)
(* Python strings are modelled as sequences of tokens.  Every character of *)
(* data (a text, a name, an identifier) is a token of its own, a           *)
(* one-character string, so that per-character operations (isalnum,        *)
(* replace, lower, slicing, strip) are computed as the code computes them. *)
(* A literal fragment of one of the program's format strings may be one    *)
(* token ("    %% Connections"); concatenation is \o.  Values that in      *)
(* Python may be None, an int or a str (a shape id) are tagged records.    *)
(***************************************************************************)
EXTENDS Integers, Sequences, FiniteSets, TLC

VARIABLES
    pc,          \* position of the operation under way
    text,        \* _sanitize_mermaid_id: parameter text
    shape_id,    \* _sanitize_mermaid_id: parameter shape_id
    node_id,     \* _sanitize_mermaid_id: returned value
    heap,        \* the native object graph: object id -> its attributes
    shape,       \* _extract_shape_info: parameter shape (an object id)
    depth,       \* _extract_shape_info: parameter depth
    shape_info,  \* _extract_shape_info: returned record
    stack,       \* _extract_shape_info: the frames of the calls under way
    page,        \* _extract_page_data: parameter page (a native page object)
    page_data,   \* _extract_page_data: returned record; _generate_mermaid_diagram: parameter
    mermaid,     \* _generate_mermaid_diagram: returned block
    data,        \* _to_markdown: parameter data
    markdown,    \* _to_markdown: returned document
    file_path,      \* convert: parameter file_path (the name of the file)
    output_format,  \* convert: parameter output_format
    world,          \* convert: what the call finds (library, file system, reader)
    result,         \* convert: the document record under construction
    pages,          \* convert: the pages the loop of line 677 has yet to visit
    returned,       \* convert: the value returned or the exception raised
    arg_obj,        \* a helper called alone: its parameter obj (shape)
    arg_name,       \* _get_attribute_value: parameter attr_name
    arg_default,    \* _get_attribute_value: parameter default
    ret             \* a helper called alone: its outcome

Idle == <<>>

sanVars == <<text, shape_id, node_id>>
shapeVars == <<heap, shape, depth, shape_info, stack>>
pageVars == <<page, page_data>>
renderVars == <<mermaid, data, markdown>>
convVars == <<file_path, output_format, world, result, pages, returned>>
helperVars == <<arg_obj, arg_name, arg_default, ret>>
vars == <<pc, sanVars, shapeVars, pageVars, renderVars, convVars, helperVars>>

\* the variables of an operation that a specification does not exercise
SanIdle == text = Idle /\ shape_id = Idle /\ node_id = Idle
ShapeIdle ==
    heap = Idle /\ shape = Idle /\ depth = Idle /\ shape_info = Idle /\ stack = Idle
PageIdle == page = Idle /\ page_data = Idle
RenderIdle == mermaid = Idle /\ data = Idle /\ markdown = Idle
HelperIdle == arg_obj = Idle /\ arg_name = Idle /\ arg_default = Idle /\ ret = Idle
ConvIdle ==
    /\ file_path = Idle /\ output_format = Idle /\ world = Idle
    /\ result = Idle /\ pages = Idle /\ returned = Idle

(***************************************************************************)
(* Bounds of the model.                                                    *)
(***************************************************************************)
MaxTextLen == 2      \* every text over SanChars up to this length is an input
MaxOver == 2         \* long texts run up to MaxIdLen + MaxOver characters
MaxIntId == 2        \* integer ids 0..MaxIntId
MaxChildren == 2     \* a native child collection holds up to this many shapes
MaxShapes == 2       \* a page holds up to this many top-level shapes
MaxMedia == 2        \* a page's media list holds up to this many items
MaxDiagramShapes == 2  \* a diagram payload holds up to this many shapes
MaxConnections == 2    \* and up to this many connections
MaxDocPages == 2       \* a document holds up to this many pages
MaxPages == 2          \* a file holds up to this many pages
MaxConnects == 2       \* a connects collection holds up to this many entries
MaxCandidate == 2      \* a candidate shape collection holds up to this many elements

(***************************************************************************)
(* Program constants.                                                      *)
(***************************************************************************)
MaxIdLen == 50       \* sanitized[:50]
MaxDepth == 5        \* if depth < 5

(***************************************************************************)
(* Characters and strings.                                                 *)
(***************************************************************************)
Min(a, b) == IF a <= b THEN a ELSE b

LowerSeq ==
    <<"a", "b", "c", "d", "e", "f", "g", "h", "i", "j", "k", "l", "m",
      "n", "o", "p", "q", "r", "s", "t", "u", "v", "w", "x", "y", "z">>
UpperSeq ==
    <<"A", "B", "C", "D", "E", "F", "G", "H", "I", "J", "K", "L", "M",
      "N", "O", "P", "Q", "R", "S", "T", "U", "V", "W", "X", "Y", "Z">>
Range(q) == {q[i] : i \in 1..Len(q)}
LowerChars == Range(LowerSeq)
UpperChars == Range(UpperSeq)
DigitChars == {"0", "1", "2", "3", "4", "5", "6", "7", "8", "9"}

\* str.isalnum() of one character
isalnum(c) == c \in LowerChars \cup UpperChars \cup DigitChars

\* F(v), with v evaluated once however often F uses it
Bind(v, F(_)) == CHOOSE r \in {F(x) : x \in {v}} : TRUE

\* str.lower() of one character and of a string
lower_char(c) ==
    IF c \in UpperChars THEN LowerSeq[CHOOSE i \in 1..Len(UpperSeq) : UpperSeq[i] = c] ELSE c
lower(s) == [i \in 1..Len(s) |-> lower_char(s[i])]

\* sub in s
Contains(s, sub) ==
    \E i \in 1..(Len(s) - Len(sub) + 1) : SubSeq(s, i, i + Len(sub) - 1) = sub

\* s.startswith(prefix)
startswith(s, prefix) == Len(s) >= Len(prefix) /\ SubSeq(s, 1, Len(prefix)) = prefix

\* sep.join(parts)
RECURSIVE join(_, _)
join(sep, parts) ==
    IF parts = <<>> THEN <<>>
    ELSE IF Len(parts) = 1 THEN parts[1]
    ELSE parts[1] \o sep \o join(sep, Tail(parts))

\* s.replace(old, new) for one-character old and new
replace(s, old, new) == [i \in 1..Len(s) |-> IF s[i] = old THEN new ELSE s[i]]

Take(s, n) == SubSeq(s, 1, Min(Len(s), n))

SeqsUpTo(S, n) == UNION {[1..k -> S] : k \in 0..n}

\* the first n characters of p repeated cyclically
Cycle(p, n) == [i \in 1..n |-> p[((i - 1) % Len(p)) + 1]]

(***************************************************************************)
(* Identifier values: None, an int, or a str.                              *)
(***************************************************************************)
NoneVal == [kind |-> "none"]
IntVal(n) == [kind |-> "int", n |-> n]
StrVal(s) == [kind |-> "str", s |-> s]

\* bool(v) as used by `if v:` / `v or w`
Truthy(v) ==
    CASE v.kind = "none" -> FALSE
      [] v.kind = "int" -> v.n # 0
      [] v.kind = "str" -> v.s # <<>>

DigitOf(d) ==
    CASE d = 0 -> "0" [] d = 1 -> "1" [] d = 2 -> "2" [] d = 3 -> "3"
      [] d = 4 -> "4" [] d = 5 -> "5" [] d = 6 -> "6" [] d = 7 -> "7"
      [] d = 8 -> "8" [] d = 9 -> "9"

RECURSIVE NatStr(_)
NatStr(n) == IF n < 10 THEN <<DigitOf(n)>> ELSE NatStr(n \div 10) \o <<DigitOf(n % 10)>>

\* str(v), also what an f-string interpolation {v} produces; the text Python
\* gives for other objects (lists, bytes, reader objects) is abbreviated
Str(v) ==
    CASE v.kind = "none" -> <<"N", "o", "n", "e">>
      [] v.kind = "int" -> IF v.n < 0 THEN <<"-">> \o NatStr(0 - v.n) ELSE NatStr(v.n)
      [] v.kind = "str" -> v.s
      [] OTHER -> <<"<", "o", "b", "j", ">">>

Whitespace == {" ", "\t", "\n"}

\* str.strip()
RECURSIVE lstrip(_)
lstrip(s) == IF s # <<>> /\ Head(s) \in Whitespace THEN lstrip(Tail(s)) ELSE s

RECURSIVE rstrip(_)
rstrip(s) ==
    IF s # <<>> /\ s[Len(s)] \in Whitespace THEN rstrip(SubSeq(s, 1, Len(s) - 1)) ELSE s

strip(s) == rstrip(lstrip(s))

(***************************************************************************)
(* Native objects.  The document reader hands over duck-typed objects: an  *)
(* object is a function from the names of the attributes it has to what a  *)
(* lookup of that name does.  Child collections refer to objects of the    *)
(* heap by id, so that the graph may share objects and may be cyclic.      *)
(***************************************************************************)
ListVal(items) == [kind |-> "list", items |-> items]     \* a list
TupleVal(items) == [kind |-> "tuple", items |-> items]   \* a tuple
RefVal(o) == [kind |-> "ref", id |-> o]                  \* an object of the heap
ObjVal(attrs) == [kind |-> "obj", attrs |-> attrs]       \* an object held inline
DictVal(items) == [kind |-> "dict", items |-> items]     \* a dict, as its <<key, value>> pairs
BytesVal(n) == [kind |-> "bytes", len |-> n]             \* n bytes of payload
BadStr == [kind |-> "badstr"]                            \* a truthy object whose __str__ raises

Field(v) == [kind |-> "field", v |-> v]       \* plain attribute holding v
Method(v) == [kind |-> "method", v |-> v]     \* zero-argument callable returning v
RaisingMethod == [kind |-> "raising"]         \* zero-argument callable that raises
BadProp == [kind |-> "badprop"]               \* property whose getter raises (not AttributeError)

NoAttrs == <<>>

\* bool(v) of any value
IsTrue(v) ==
    CASE v.kind \in {"none", "int", "str"} -> Truthy(v)
      [] v.kind \in {"list", "tuple", "dict"} -> v.items # <<>>
      [] v.kind = "bytes" -> v.len # 0
      [] OTHER -> TRUE

\* the attributes of the object a value denotes; values that are no objects
\* of the reader (None, numbers, strings, lists) have none of the probed names
AttrsOf(h, v) ==
    CASE v.kind = "ref" -> h[v.id]
      [] v.kind = "obj" -> v.attrs
      [] OTHER -> NoAttrs

\* the outcome of an operation that may raise
Ok(v) == [ok |-> TRUE, v |-> v]
Raise == [ok |-> FALSE]

\* hasattr(obj, name): "true", "false", or "raise" when the getter raises
\* something other than AttributeError (hasattr swallows AttributeError only)
hasattr(obj, name) ==
    IF name \notin DOMAIN obj THEN "false"
    ELSE IF obj[name].kind = "badprop" THEN "raise"
    ELSE "true"

\* mutant: a failing lookup or call yields None, whatever the default
get_attribute_value_none(obj, attr_name, default) ==
    IF attr_name \notin DOMAIN obj THEN default
    ELSE CASE obj[attr_name].kind = "field" -> obj[attr_name].v
           [] obj[attr_name].kind = "method" -> obj[attr_name].v
           [] obj[attr_name].kind = "raising" -> NoneVal
           [] obj[attr_name].kind = "badprop" -> NoneVal

(***************************************************************************)
(* _get_attribute_value                                                    *)
(***************************************************************************)
get_attribute_value(obj, attr_name, default) ==
    IF attr_name \notin DOMAIN obj THEN default
    ELSE CASE obj[attr_name].kind = "field" -> obj[attr_name].v
           [] obj[attr_name].kind = "method" -> obj[attr_name].v
           [] obj[attr_name].kind = "raising" -> default
           [] obj[attr_name].kind = "badprop" -> default

(***************************************************************************)
(* _get_shapes_from_object: a sequence of values, or Raised                *)
(***************************************************************************)
CandidateNames == <<"shapes", "child_shapes", "sub_shapes">>

\* what one candidate attribute contributes (hasattr has answered TRUE)
candidate_shapes(attr) ==
    CASE attr.kind = "method" ->
             IF ~IsTrue(attr.v) THEN <<>>
             ELSE IF attr.v.kind = "list" THEN attr.v.items
             ELSE <<attr.v>>
      [] attr.kind = "raising" -> <<>>
      [] attr.kind = "field" ->
             IF attr.v.kind = "none" THEN <<>>
             ELSE IF attr.v.kind \in {"list", "tuple"} THEN attr.v.items
             ELSE <<>>        \* list(attr) of a non-iterable raises: swallowed

RECURSIVE get_shapes_from(_, _, _)
get_shapes_from(obj, i, shapes) ==
    IF i > Len(CandidateNames) THEN Ok(shapes)
    ELSE LET has == hasattr(obj, CandidateNames[i])
         IN CASE has = "raise" -> Raise
              [] has = "false" -> get_shapes_from(obj, i + 1, shapes)
              [] has = "true" ->
                     get_shapes_from(obj, i + 1,
                                     shapes \o candidate_shapes(obj[CandidateNames[i]]))

get_shapes_from_object(obj) == get_shapes_from(obj, 1, <<>>)

(***************************************************************************)
(* _extract_connections: a sequence of pairs <<from, to>> of strings.      *)
(* Every failure is caught by the one try block around both strategies,    *)
(* and the pairs appended so far are returned.                             *)
(***************************************************************************)
\* `for x in v`: the elements, or Raise when v is not iterable
Iterate(v) ==
    CASE v.kind \in {"list", "tuple"} -> Ok(v.items)
      [] v.kind = "str" -> Ok([i \in 1..Len(v.s) |-> StrVal(<<v.s[i]>>)])
      [] OTHER -> Raise

\* the scan of Strategy A: ends is <<from_id, to_id>>, overwritten entry by entry
RECURSIVE scan_connects(_, _, _)
scan_connects(h, connects, ends) ==
    IF connects = <<>> THEN ends
    ELSE LET connect == AttrsOf(h, Head(connects))
             from_shape == get_attribute_value(connect, "from_shape", NoneVal)
             to_shape == get_attribute_value(connect, "to_shape", NoneVal)
             from_id == IF IsTrue(from_shape)
                        THEN get_attribute_value(AttrsOf(h, from_shape), "ID", NoneVal)
                        ELSE ends[1]
             to_id == IF IsTrue(to_shape)
                      THEN get_attribute_value(AttrsOf(h, to_shape), "ID", NoneVal)
                      ELSE ends[2]
         IN scan_connects(h, Tail(connects), <<from_id, to_id>>)

\* connections.append((str(from_id), str(to_id))) guarded by `if from_id and to_id`
append_pair(connections, from_id, to_id) ==
    IF IsTrue(from_id) /\ IsTrue(to_id)
    THEN IF from_id.kind = "badstr" \/ to_id.kind = "badstr"
         THEN Raise
         ELSE Ok(Append(connections, <<Str(from_id), Str(to_id)>>))
    ELSE Ok(connections)

\* Strategy A (lines 108-124): Ok(connections) or Raise
strategy_a(h, obj) ==
    LET has == hasattr(obj, "connects")
        connects == get_attribute_value(obj, "connects", ListVal(<<>>))
    IN CASE has = "raise" -> Raise
         [] has = "false" -> Ok(<<>>)
         [] has = "true" ->
                IF ~IsTrue(connects) THEN Ok(<<>>)
                ELSE IF ~Iterate(connects).ok THEN Raise
                ELSE LET ends == scan_connects(h, Iterate(connects).v, <<NoneVal, NoneVal>>)
                     IN append_pair(<<>>, ends[1], ends[2])

\* Strategy B (lines 127-137) continuing from the connections of Strategy A
strategy_b(h, obj, connections) ==
    LET has1 == hasattr(obj, "one_d")
        has2 == hasattr(obj, "OneD")
        begin_shape == get_attribute_value(obj, "begin_shape", NoneVal)
        end_shape == get_attribute_value(obj, "end_shape", NoneVal)
    IN IF has1 = "raise" \/ (has1 = "false" /\ has2 = "raise") THEN Raise
       ELSE IF has1 = "false" /\ has2 = "false" THEN Ok(connections)
       ELSE IF IsTrue(begin_shape) /\ IsTrue(end_shape)
            THEN append_pair(connections,
                             get_attribute_value(AttrsOf(h, begin_shape), "ID", NoneVal),
                             get_attribute_value(AttrsOf(h, end_shape), "ID", NoneVal))
            ELSE Ok(connections)

extract_connections(h, obj) ==
    LET a == strategy_a(h, obj)
    IN IF ~a.ok THEN <<>>
       ELSE LET b == strategy_b(h, obj, a.v)
            IN IF b.ok THEN b.v ELSE a.v

(***************************************************************************)
(* _extract_image_from_shape: the payload found, or None.  Every failure   *)
(* is caught and gives None.  (Method 6, the cells probe, only logs.)      *)
(***************************************************************************)
\* Methods 1-3: a direct attribute of the shape
probe_direct(obj, name) ==
    LET has == hasattr(obj, name)
        v == get_attribute_value(obj, name, NoneVal)
    IN CASE has = "raise" -> Raise
         [] has = "false" -> Ok(NoneVal)
         [] has = "true" -> Ok(IF IsTrue(v) THEN v ELSE NoneVal)

\* Methods 4 and 5: attribute `inner` of the object held in attribute `outer`
probe_nested(h, obj, outer, inner) ==
    LET has == hasattr(obj, outer)
        o == AttrsOf(h, get_attribute_value(obj, outer, NoneVal))
        hasin == hasattr(o, inner)
        v == get_attribute_value(o, inner, NoneVal)
    IN CASE has = "raise" -> Raise
         [] has = "false" -> Ok(NoneVal)
         [] has = "true" ->
                IF ~IsTrue(get_attribute_value(obj, outer, NoneVal)) THEN Ok(NoneVal)
                ELSE CASE hasin = "raise" -> Raise
                       [] hasin = "false" -> Ok(NoneVal)
                       [] hasin = "true" -> Ok(IF IsTrue(v) THEN v ELSE NoneVal)

ImageProbes(h, obj) ==
    << probe_direct(obj, "image_data"),
       probe_direct(obj, "image"),
       probe_direct(obj, "file"),
       probe_nested(h, obj, "master_shape", "image_data"),
       probe_nested(h, obj, "fill", "image") >>

\* the probes in order: the first payload found; None when a probe raises first
RECURSIVE first_image(_, _)
first_image(probes, i) ==
    IF i > Len(probes) THEN NoneVal
    ELSE IF ~probes[i].ok THEN NoneVal
    ELSE IF probes[i].v # NoneVal THEN probes[i].v
    ELSE first_image(probes, i + 1)

extract_image_from_shape(h, obj) ==
    LET sid == get_attribute_value(obj, "ID", NoneVal)
    IN IF sid.kind = "badstr" THEN NoneVal     \* the debug f-string raises
       ELSE first_image(ImageProbes(h, obj), 1)

(***************************************************************************)
(* _extract_shape_info: Ok(ShapeRecord), or Raise                          *)
(***************************************************************************)
\* mutant: every sub-shape is kept
Retained_always(sub_info) == TRUE

\* the test of lines 328-329 that keeps a sub-shape in its parent
Retained(sub_info) ==
    \/ sub_info.text # <<>>
    \/ sub_info.name # <<>>
    \/ sub_info.sub_shapes # <<>>
    \/ sub_info.has_image
    \/ IsTrue(sub_info.id)

\* lines 304-310: the name of the master shape, "" on absence or failure
shape_type(h, obj) ==
    LET master == get_attribute_value(obj, "master_shape", NoneVal)
        master_name == get_attribute_value(AttrsOf(h, master), "name", NoneVal)
    IN IF IsTrue(master) /\ IsTrue(master_name) /\ master_name.kind # "badstr"
       THEN Str(master_name)
       ELSE <<>>

\* lines 284-319: everything of the record but sub_shapes; Raise when str()
\* of the text or of the name raises, or the f-string of line 319
shape_fields(h, sh) ==
    LET obj == AttrsOf(h, sh)
        text_v == get_attribute_value(obj, "text", StrVal(<<>>))
        name_v == get_attribute_value(obj, "name", StrVal(<<>>))
        id_upper == get_attribute_value(obj, "ID", NoneVal)
        id_v == IF IsTrue(id_upper) THEN id_upper
                ELSE get_attribute_value(obj, "id", NoneVal)
        image_data == extract_image_from_shape(h, obj)
    IN IF text_v.kind = "badstr" \/ name_v.kind = "badstr" THEN Raise
       ELSE IF IsTrue(image_data) /\ id_v.kind = "badstr" THEN Raise
       ELSE Ok([ text |-> strip(Str(text_v)),
                 name |-> Str(name_v),
                 id |-> id_v,
                 type |-> shape_type(h, obj),
                 sub_shapes |-> <<>>,
                 connections |-> extract_connections(h, obj),
                 has_image |-> IsTrue(image_data) ])

\* mutant: the depth test lets depth 5 recurse once more
descends_offbyone(d) == d <= MaxDepth

\* mutant: no depth test at all
descends_always(d) == TRUE

\* line 322: if depth < 5
descends(d) == d < MaxDepth

\* lines 322-324: the native children the loop of line 325 runs over; none
\* at the depth limit, none when _get_shapes_from_object raises (line 331)
sub_shapes_of(h, sh, d) ==
    LET children == get_shapes_from_object(AttrsOf(h, sh))
    IN IF descends(d) /\ children.ok THEN children.v ELSE <<>>

RECURSIVE extract_shape_info(_, _, _)
RECURSIVE extract_sub_shapes(_, _, _, _)

\* the loop of lines 325-330; an exception of a sub-shape ends the loop
\* (line 331) and keeps what was appended before
extract_sub_shapes(h, sub_shapes, d, acc) ==
    IF sub_shapes = <<>> THEN acc
    ELSE Bind(extract_shape_info(h, Head(sub_shapes), d + 1),
              LAMBDA sub_info :
                  IF ~sub_info.ok THEN acc
                  ELSE extract_sub_shapes(h, Tail(sub_shapes), d,
                                          IF Retained(sub_info.v)
                                          THEN Append(acc, sub_info.v)
                                          ELSE acc))

extract_shape_info(h, sh, d) ==
    LET fields == shape_fields(h, sh)
    IN IF ~fields.ok THEN Raise
       ELSE Ok([fields.v EXCEPT
                   !.sub_shapes = extract_sub_shapes(h, sub_shapes_of(h, sh, d), d, <<>>)])

(***************************************************************************)
(* _extract_media_from_page: a sequence of media items.  Every failure is  *)
(* caught and the items found so far are returned.                         *)
(***************************************************************************)
MediaItem(index, payload, source) == [index |-> index, data |-> payload, source |-> source]

\* lines 158-176: the media attribute, a list or a dict
media_items_of(page_obj) ==
    LET has == hasattr(page_obj, "media")
        media == get_attribute_value(page_obj, "media", NoneVal)
    IN CASE has = "raise" -> Raise
         [] has = "false" -> Ok(<<>>)
         [] has = "true" ->
                IF ~IsTrue(media) THEN Ok(<<>>)
                ELSE IF media.kind = "list"
                THEN Ok([i \in 1..Len(media.items) |->
                            MediaItem(IntVal(i - 1), media.items[i], "page.media")])
                ELSE IF media.kind = "dict"
                THEN Ok([i \in 1..Len(media.items) |->
                            MediaItem(media.items[i][1], media.items[i][2], "page.media")])
                ELSE Ok(<<>>)

\* lines 179-189: the images attribute, a list only
image_items_of(page_obj) ==
    LET has == hasattr(page_obj, "images")
        images == get_attribute_value(page_obj, "images", NoneVal)
    IN CASE has = "raise" -> Raise
         [] has = "false" -> Ok(<<>>)
         [] has = "true" ->
                IF IsTrue(images) /\ images.kind = "list"
                THEN Ok([i \in 1..Len(images.items) |->
                            MediaItem(IntVal(i - 1), images.items[i], "page.images")])
                ELSE Ok(<<>>)

extract_media_from_page(page_obj) ==
    LET m == media_items_of(page_obj)
        i == image_items_of(page_obj)
    IN IF ~m.ok THEN <<>>
       ELSE IF ~i.ok THEN m.v
       ELSE m.v \o i.v

(***************************************************************************)
(* _extract_page_data: Ok(PageRecord), or Raise                            *)
(***************************************************************************)
UnnamedPage == <<"U", "n", "n", "a", "m", "e", "d", " ", "P", "a", "g", "e">>

\* mutant: an image anywhere below the shape counts too
RECURSIVE counts_image_nested(_)
counts_image_nested(info) ==
    info.has_image \/ \E i \in 1..Len(info.sub_shapes) : counts_image_nested(info.sub_shapes[i])

\* line 381: if shape_info.get("has_image")
counts_image(info) == info.has_image

\* mutant: the page-level list is pruned like a sub_shapes list
keeps_top_level_pruned(info) == Retained(info)

\* line 374: the shape is always appended
keeps_top_level(info) == TRUE

\* mutant: the first shape whose normalization raises ends the loop
RECURSIVE process_shapes_stopping(_, _, _)
process_shapes_stopping(h, shapes_to_process, page_rec) ==
    IF shapes_to_process = <<>> THEN page_rec
    ELSE Bind(extract_shape_info(h, Head(shapes_to_process), 0),
              LAMBDA r :
                  IF ~r.ok THEN page_rec
                  ELSE process_shapes_stopping(h, Tail(shapes_to_process),
                           [page_rec EXCEPT
                               !.shapes = Append(@, r.v),
                               !.connections = @ \o r.v.connections,
                               !.images_count = IF r.v.has_image THEN @ + 1 ELSE @]))

\* lines 369-386: the loop over the shapes of the page; a shape whose
\* normalization raises is skipped
RECURSIVE process_shapes(_, _, _)
process_shapes(h, shapes_to_process, page_rec) ==
    IF shapes_to_process = <<>> THEN page_rec
    ELSE Bind(extract_shape_info(h, Head(shapes_to_process), 0),
              LAMBDA r :
                  process_shapes(h, Tail(shapes_to_process),
                      IF ~r.ok THEN page_rec
                      ELSE [page_rec EXCEPT
                               !.shapes = IF keeps_top_level(r.v) THEN Append(@, r.v) ELSE @,
                               !.connections = @ \o r.v.connections,
                               !.images_count = IF counts_image(r.v) THEN @ + 1 ELSE @]))

extract_page_data(h, page_obj) ==
    LET page_name == get_attribute_value(page_obj, "name", StrVal(UnnamedPage))
        page_media == extract_media_from_page(page_obj)
        shapes_to_process == get_shapes_from_object(page_obj)
    IN IF IsTrue(page_name) /\ page_name.kind = "badstr" THEN Raise
       ELSE IF ~shapes_to_process.ok THEN Raise
       ELSE Ok(process_shapes(h, shapes_to_process.v,
                   [ name |-> IF IsTrue(page_name) THEN Str(page_name) ELSE UnnamedPage,
                     shapes |-> <<>>,
                     connections |-> <<>>,
                     images_count |-> Len(page_media),
                     page_media |-> page_media ]))

(***************************************************************************)
(* _sanitize_mermaid_id                                                    *)
(***************************************************************************)
ShapePrefix == <<"s", "h", "a", "p", "e", "_">>
Unknown == <<"u", "n", "k", "n", "o", "w", "n">>

\* mutant: the [:50] slice is dropped
sanitize_mermaid_id_noslice(t, sid) ==
    IF t # <<>>
    THEN [i \in 1..Len(t) |-> IF isalnum(t[i]) THEN t[i] ELSE "_"]
    ELSE IF Truthy(sid)
         THEN ShapePrefix \o Str(sid)
         ELSE Unknown

sanitize_mermaid_id(t, sid) ==
    IF t # <<>>
    THEN Take([i \in 1..Len(t) |-> IF isalnum(t[i]) THEN t[i] ELSE "_"], MaxIdLen)
    ELSE IF Truthy(sid)
         THEN ShapePrefix \o Str(sid)
         ELSE Unknown

(***************************************************************************)
(* Inputs of _sanitize_mermaid_id.                                         *)
(***************************************************************************)
SanChars == {"a", "Z", "7", " ", "-", "_", "\""}
ShortTexts == SeqsUpTo(SanChars, MaxTextLen)
LongTexts ==
    {Cycle(p, n) : p \in ShortTexts \ {<<>>}, n \in (MaxIdLen - 1)..(MaxIdLen + MaxOver)}
SanTexts == ShortTexts \cup LongTexts

SanIds ==
    {NoneVal}
    \cup {IntVal(n) : n \in (0..MaxIntId) \cup {123, -1}}
    \cup {StrVal(s) : s \in {<<>>, <<"1">>, <<"4", "2">>, <<"a", "-", "b">>}}

InitSanitize ==
    /\ pc = "call"
    /\ text \in SanTexts
    /\ shape_id \in SanIds
    /\ node_id = Idle
    /\ ShapeIdle
    /\ PageIdle
    /\ RenderIdle
    /\ ConvIdle
    /\ HelperIdle

SanitizeMermaidId ==
    /\ pc = "call"
    /\ node_id' = sanitize_mermaid_id(text, shape_id)
    /\ pc' = "return"
    /\ UNCHANGED <<text, shape_id>>

NextSanitize == SanitizeMermaidId /\ UNCHANGED <<shapeVars, pageVars, renderVars, convVars, helperVars>>

SpecSanitize == InitSanitize /\ [][NextSanitize]_vars

(***************************************************************************)
(* _extract_shape_info called on a shape of a native object graph.         *)
(* The graph has the objects ObjIds; each has one of the contents below    *)
(* and a `shapes` list: up to MaxChildren objects for object 1, at most    *)
(* one for object 2, so that graphs with shared children, self-loops and   *)
(* longer cycles are all among the inputs.                                 *)
(***************************************************************************)
ObjIds == {1, 2}

EmptyStr == StrVal(<<>>)

ShapeContents ==
    { [text |-> Field(EmptyStr), name |-> Field(EmptyStr), ID |-> Field(NoneVal)],
      [text |-> Field(StrVal(<<" ", "A", " ">>)), name |-> Field(EmptyStr)],
      [text |-> Field(StrVal(<<" ">>)), name |-> Method(StrVal(<<"n">>))],
      [ID |-> Field(IntVal(0)), id |-> Field(IntVal(0))],
      [ID |-> Method(IntVal(1))],
      [image_data |-> Field(BytesVal(3))] }

ChildLists(n) == {[i \in 1..Len(q) |-> RefVal(q[i])] : q \in SeqsUpTo(ObjIds, n)}

NativeShapes(n) ==
    {c @@ [shapes |-> Field(ListVal(kids))] : c \in ShapeContents, kids \in ChildLists(n)}

ShapeHeaps ==
    {h \in [ObjIds -> NativeShapes(MaxChildren)] : Len(h[2].shapes.v.items) <= 1}

InitShape ==
    /\ pc = "call"
    /\ heap \in ShapeHeaps
    /\ shape = Idle
    /\ depth = Idle
    /\ shape_info = Idle
    /\ stack = Idle
    /\ SanIdle
    /\ PageIdle
    /\ RenderIdle
    /\ ConvIdle
    /\ HelperIdle

\* a call _extract_shape_info(shape, depth); it returns a record or raises
ExtractShapeInfo ==
    /\ pc = "call"
    /\ \E o \in DOMAIN heap, d \in 0..MaxDepth :
           \E r \in {extract_shape_info(heap, RefVal(o), d)} :
              /\ shape' = o
              /\ depth' = d
              /\ pc' = IF r.ok THEN "return" ELSE "raised"
              /\ shape_info' = IF r.ok THEN r.v ELSE Idle
    /\ UNCHANGED <<heap, stack>>

NextShape == ExtractShapeInfo /\ UNCHANGED <<sanVars, pageVars, renderVars, convVars, helperVars>>

SpecShape == InitShape /\ [][NextShape]_vars

(***************************************************************************)
(* Claims about _extract_shape_info.                                       *)
(***************************************************************************)
\* how many levels of sub_shapes lie below a record
RECURSIVE Nesting(_)
RECURSIVE MaxNesting(_)
MaxNesting(subs) ==
    IF subs = <<>> THEN 0
    ELSE LET a == Nesting(Head(subs))
             b == MaxNesting(Tail(subs))
         IN IF a >= b THEN a ELSE b
Nesting(info) == IF info.sub_shapes = <<>> THEN 0 ELSE 1 + MaxNesting(info.sub_shapes)

\* C3: a shape normalized at depth 5 has an empty sub_shapes sequence whatever
\* its native children are, and a record produced from a call at depth d nests
\* sub_shapes at most 5 - d levels below its root (5 for a call at depth 0).
C3_DepthLimit ==
    pc = "return" =>
        /\ depth = MaxDepth => shape_info.sub_shapes = <<>>
        /\ Nesting(shape_info) <= MaxDepth - depth

\* a shape with two native children that carry content has been normalized
\* at depth 5
C3_Witness ==
    /\ pc = "return"
    /\ depth = MaxDepth
    /\ Len(get_shapes_from_object(heap[shape]).v) >= 2
    /\ \A o \in ObjIds : shape_fields(heap, RefVal(o)).v.text # <<>>
    /\ shape_info.sub_shapes = <<>>

(***************************************************************************)
(* _extract_shape_info step by step: one frame per call under way.  A      *)
(* frame holds the shape, its depth, the native children the loop of line  *)
(* 325 has still to visit, and the record built so far.                    *)
(***************************************************************************)
Frame(h, sh, d, fields) ==
    [sh |-> sh, d |-> d, kids |-> sub_shapes_of(h, sh, d), info |-> fields]

WalkContents ==
    { [text |-> Field(EmptyStr), name |-> Field(EmptyStr), ID |-> Field(NoneVal)],
      [text |-> Field(StrVal(<<" ", "A", " ">>)), ID |-> Method(IntVal(1))] }

WalkHeaps ==
    {h \in [ObjIds -> {c @@ [shapes |-> Field(ListVal(kids))] :
                          c \in WalkContents, kids \in ChildLists(MaxChildren)}] :
        Len(h[2].shapes.v.items) <= 1}

InitWalk ==
    /\ pc = "call"
    /\ heap \in WalkHeaps
    /\ shape = Idle
    /\ depth = Idle
    /\ shape_info = Idle
    /\ stack = <<>>
    /\ SanIdle
    /\ PageIdle
    /\ RenderIdle
    /\ ConvIdle
    /\ HelperIdle

\* the top-level call _extract_shape_info(shape) enters the function
WalkCall ==
    /\ pc = "call"
    /\ \E o \in DOMAIN heap :
           \E fields \in {shape_fields(heap, RefVal(o))} :
              /\ shape' = o
              /\ depth' = 0
              /\ pc' = IF fields.ok THEN "walk" ELSE "raised"
              /\ stack' = IF fields.ok THEN <<Frame(heap, RefVal(o), 0, fields.v)>> ELSE <<>>
    /\ UNCHANGED <<heap, shape_info>>

\* line 326: the loop calls _extract_shape_info(sub_shape, depth + 1); a call
\* that raises ends the caller's loop (line 331)
WalkDescend ==
    /\ pc = "walk"
    /\ stack[Len(stack)].kids # <<>>
    /\ LET top == stack[Len(stack)]
           fields == shape_fields(heap, Head(top.kids))
       IN stack' = IF fields.ok
                   THEN Append(stack, Frame(heap, Head(top.kids), top.d + 1, fields.v))
                   ELSE [stack EXCEPT ![Len(stack)].kids = <<>>]
    /\ UNCHANGED <<pc, heap, shape, depth, shape_info>>

\* line 334: the call on top returns its record; lines 328-330: the caller
\* appends it if it is retained, and goes on with the next sub-shape
WalkReturn ==
    /\ pc = "walk"
    /\ stack[Len(stack)].kids = <<>>
    /\ LET n == Len(stack)
           top == stack[n]
       IN IF n = 1
          THEN /\ shape_info' = top.info
               /\ pc' = "return"
               /\ stack' = <<>>
          ELSE /\ stack' = [SubSeq(stack, 1, n - 1) EXCEPT
                               ![n - 1].kids = Tail(@),
                               ![n - 1].info.sub_shapes =
                                   IF Retained(top.info) THEN Append(@, top.info) ELSE @]
               /\ UNCHANGED <<pc, shape_info>>
    /\ UNCHANGED <<heap, shape, depth>>

NextWalk == (WalkCall \/ WalkDescend \/ WalkReturn) /\ UNCHANGED <<sanVars, pageVars, renderVars, convVars, helperVars>>

SpecWalk == InitWalk /\ [][NextWalk]_vars

\* the interpreter runs the call to its end: it never pauses for ever
SpecWalkFair == SpecWalk /\ WF_vars(NextWalk)

\* an object is among its own descendants
RECURSIVE ReachableFrom(_, _, _)
ReachableFrom(h, seen, n) ==
    IF n = 0 THEN seen
    ELSE ReachableFrom(h,
             seen \cup {v.id : v \in UNION {{ get_shapes_from_object(h[o]).v[i] :
                                               i \in 1..Len(get_shapes_from_object(h[o]).v) } :
                                             o \in seen}},
             n - 1)

Cyclic(h, o) ==
    \E c \in {get_shapes_from_object(h[o]).v[i] : i \in 1..Len(get_shapes_from_object(h[o]).v)} :
        o \in ReachableFrom(h, {c.id}, Cardinality(DOMAIN h))

\* C4: normalization of a shape tree terminates for every native object graph,
\* cyclic ones included: there are never more than 6 calls under way (depths
\* 0..5), the call always returns, it raises nothing, and the record returned
\* nests at most 5 levels.
C4_Terminates ==
    /\ [](pc = "walk" => Len(stack) <= MaxDepth + 1)
    /\ [](pc = "return" => Nesting(shape_info) <= MaxDepth)
    /\ <>(pc = "return")

\* a shape that is its own descendant has been normalized, and the recursion
\* ran to the depth limit
C4_Witness ==
    /\ pc = "return"
    /\ Cyclic(heap, shape)
    /\ Nesting(shape_info) = MaxDepth

\* the frames compute what the recursive definition computes
WalkAgrees ==
    pc = "return" => shape_info = extract_shape_info(heap, RefVal(shape), 0).v

(***************************************************************************)
(* _extract_page_data called on a native page.  The shapes of the page are *)
(* objects of a graph whose objects have at most one child each; one of    *)
(* the contents is a shape whose normalization raises.                     *)
(***************************************************************************)
PageShapeContents ==
    { [text |-> Field(EmptyStr), name |-> Field(EmptyStr), ID |-> Field(NoneVal)],
      [text |-> Field(StrVal(<<"A">>)), ID |-> Field(IntVal(1))],
      [ID |-> Field(IntVal(0)), id |-> Field(IntVal(0))],
      [image_data |-> Field(BytesVal(3))],
      [text |-> Field(BadStr)] }

PageHeaps ==
    [ObjIds -> {c @@ [shapes |-> Field(ListVal(kids))] :
                   c \in PageShapeContents, kids \in ChildLists(1)}]

Payload(n) == [i \in 1..n |-> BytesVal(i)]

PageMediaAttrs ==
    {NoAttrs}
    \cup {[media |-> Field(ListVal(Payload(n)))] : n \in 1..MaxMedia}
    \cup { [media |-> Field(DictVal(<< <<StrVal(<<"k">>), BytesVal(1)>> >>))],
           [images |-> Method(ListVal(Payload(1)))],
           [media |-> Field(ListVal(Payload(1))), images |-> Field(ListVal(Payload(1)))] }

PageNameAttrs ==
    { [name |-> Field(StrVal(<<"P">>))], [name |-> Field(NoneVal)], [name |-> Field(BadStr)] }

NativePages ==
    {n @@ m @@ [shapes |-> Field(ListVal(tops))] :
        n \in PageNameAttrs, m \in PageMediaAttrs, tops \in ChildLists(MaxShapes)}

InitPage ==
    /\ pc = "call"
    /\ heap \in PageHeaps
    /\ page \in NativePages
    /\ page_data = Idle
    /\ shape = Idle
    /\ depth = Idle
    /\ shape_info = Idle
    /\ stack = Idle
    /\ SanIdle
    /\ RenderIdle
    /\ ConvIdle
    /\ HelperIdle

\* a call _extract_page_data(page); it returns a record or raises
ExtractPageData ==
    /\ pc = "call"
    /\ \E r \in {extract_page_data(heap, page)} :
          /\ pc' = IF r.ok THEN "return" ELSE "raised"
          /\ page_data' = IF r.ok THEN r.v ELSE Idle
    /\ UNCHANGED page

NextPage == ExtractPageData /\ UNCHANGED <<sanVars, shapeVars, renderVars, convVars, helperVars>>

SpecPage == InitPage /\ [][NextPage]_vars

(***************************************************************************)
(* Claims about _extract_page_data.                                        *)
(***************************************************************************)
\* a record entirely lacking text, name, id, image and sub-shapes
EntirelyEmpty(info) ==
    /\ info.text = <<>>
    /\ info.name = <<>>
    /\ info.id = NoneVal
    /\ ~info.has_image
    /\ info.sub_shapes = <<>>

\* no sub_shapes sequence at or below the record holds an entirely empty record
RECURSIVE NoEmptySubShape(_)
NoEmptySubShape(info) ==
    \A i \in 1..Len(info.sub_shapes) :
        /\ ~EntirelyEmpty(info.sub_shapes[i])
        /\ NoEmptySubShape(info.sub_shapes[i])

\* the top-level native shapes of the page, in order
TopShapes == get_shapes_from_object(page).v

\* the top-level native shapes whose normalization does not raise
NormalizedTops ==
    SelectSeq(TopShapes, LAMBDA sh : shape_fields(heap, sh).ok)

\* C5: an entirely empty sub-shape (no text, no name, absent id, no image, no
\* sub-shapes) is in no sub_shapes sequence at any depth, while the page's
\* shapes sequence is never pruned: it holds one record per top-level native
\* shape that was normalized without raising, in order, the entirely empty
\* ones included.
C5_EmptyPrunedBelowKeptOnTop ==
    pc = "return" =>
        /\ \A i \in 1..Len(page_data.shapes) : NoEmptySubShape(page_data.shapes[i])
        /\ Len(page_data.shapes) = Len(NormalizedTops)
        /\ \A i \in 1..Len(page_data.shapes) :
               page_data.shapes[i] = extract_shape_info(heap, NormalizedTops[i], 0).v

\* the page's shapes hold an entirely empty record, and an entirely empty
\* sub-shape of a top-level shape with content was pruned
C5_Witness ==
    /\ pc = "return"
    /\ \E i \in 1..Len(page_data.shapes) : EntirelyEmpty(page_data.shapes[i])
    /\ \E i \in 1..Len(page_data.shapes) :
           /\ page_data.shapes[i].text # <<>>
           /\ page_data.shapes[i].sub_shapes = <<>>
           /\ \E k \in {get_shapes_from_object(AttrsOf(heap, NormalizedTops[i])).v} :
                  /\ k # <<>>
                  /\ shape_fields(heap, k[1]).ok
                  /\ EntirelyEmpty(shape_fields(heap, k[1]).v)

\* an image somewhere strictly below the record
RECURSIVE ImageBelow(_)
ImageBelow(info) ==
    \E i \in 1..Len(info.sub_shapes) :
        info.sub_shapes[i].has_image \/ ImageBelow(info.sub_shapes[i])

\* C6: images_count equals the number of page-level media items plus the
\* number of top-level shapes of the page's shapes whose has_image is true;
\* images of nested sub-shapes are not counted.
C6_ImagesCount ==
    pc = "return" =>
        page_data.images_count =
            Len(page_data.page_media)
            + Cardinality({i \in 1..Len(page_data.shapes) : page_data.shapes[i].has_image})

\* a page with media, a top-level image shape, and a top-level shape that has
\* no image itself but an image in a sub-shape
C6_Witness ==
    /\ pc = "return"
    /\ Len(page_data.page_media) >= 1
    /\ \E i \in 1..Len(page_data.shapes) : page_data.shapes[i].has_image
    /\ \E i \in 1..Len(page_data.shapes) :
           ~page_data.shapes[i].has_image /\ ImageBelow(page_data.shapes[i])
    /\ page_data.images_count = Len(page_data.page_media) + 1

(***************************************************************************)
(* Claims about _sanitize_mermaid_id.                                      *)
(***************************************************************************)
\* the result is at most 50 characters, each alphanumeric or an underscore
IsMermaidId(s) ==
    /\ Len(s) <= MaxIdLen
    /\ \A i \in 1..Len(s) : isalnum(s[i]) \/ s[i] = "_"

\* position by position: a non-alphanumeric character of the first 50 of t
\* became one underscore, an alphanumeric one is kept
MapsCharByChar(t, s) ==
    /\ Len(s) = Min(Len(t), MaxIdLen)
    /\ \A i \in 1..Len(s) : s[i] = (IF isalnum(t[i]) THEN t[i] ELSE "_")

\* C1 (as stated): for EVERY input text, the empty one included, the result of
\* _sanitize_mermaid_id is at most 50 characters long, consists only of
\* alphanumeric characters and underscores, and maps the first 50 characters of
\* the text position by position.
C1_EveryTextYieldsMermaidId ==
    pc = "return" =>
        /\ IsMermaidId(node_id)
        /\ text # <<>> => MapsCharByChar(text, node_id)

\* C1 (amended): for every NON-EMPTY input text the result is at most 50
\* characters long, consists only of alphanumeric characters and underscores,
\* and is the first 50 characters of the text with each non-alphanumeric
\* character replaced by exactly one underscore at the same position (no
\* collapsing); for the empty text the result is such a string whenever the
\* identifier is falsy or str(identifier) is itself at most 44 alphanumeric or
\* underscore characters.
C1_NonEmptyTextYieldsMermaidId ==
    pc = "return" =>
        /\ text # <<>> => IsMermaidId(node_id) /\ MapsCharByChar(text, node_id)
        /\ (text = <<>> /\ (~Truthy(shape_id)
                              \/ IsMermaidId(ShapePrefix \o Str(shape_id))))
               => IsMermaidId(node_id)

\* a text longer than 50 characters with two adjacent non-alphanumeric
\* characters has been sanitized
C1_Witness ==
    /\ pc = "return"
    /\ Len(text) > MaxIdLen
    /\ \E i \in 1..(MaxIdLen - 1) : ~isalnum(text[i]) /\ ~isalnum(text[i + 1])
    /\ Len(node_id) = MaxIdLen

\* C2: with empty text, every identifier that is given (not None), the integer 0
\* and the empty string included, yields exactly shape_<identifier>; no
\* identifier yields exactly unknown.
C2_EmptyTextFallback ==
    (pc = "return" /\ text = <<>>) =>
        IF shape_id # NoneVal
        THEN node_id = ShapePrefix \o Str(shape_id)
        ELSE node_id = Unknown

(***************************************************************************)
(* _generate_mermaid_diagram.  The block is the token sequence of the      *)
(* returned string: the lines joined by "\n".  Identifiers and labels are  *)
(* sequences of characters; the indentation, the brackets of a node line   *)
(* and the arrow of an edge line are tokens of their own.  The three grave *)
(* accents of a code fence are the one token Fence.  The image glyph is    *)
(* the four characters the source file holds at lines 442 and 460 (the     *)
(* UTF-8 bytes of U+1F4F7 read as Windows-1252), each written here by its  *)
(* code point.                                                             *)
(***************************************************************************)
ImageGlyph == <<"(U+00F0)", "(U+0178)", "(U+201C)", "(U+00B7)">>
Fence == "(fence)"
Indent == "    "
OpenLabel == "[\""
CloseLabel == "\"]"
Arrow == " --> "
ImagePrefix == <<"I", "m", "a", "g", "e", "_">>
PageImagePrefix == <<"p", "a", "g", "e", "_", "i", "m", "a", "g", "e", "_">>
PageImageLabel == <<" ", "P", "a", "g", "e", " ", "I", "m", "a", "g", "e", " ">>

\* a dict with string keys, as a function; m[k] = v overwrites
EmptyMap == [k \in {} |-> <<>>]
map_put(m, k, v) == [x \in (DOMAIN m) \cup {k} |-> IF x = k THEN v ELSE m[x]]

\* lines 425-427 and 448-452: the text of the shape, Image_<id> for a
\* textless shape with an image
label_text(s) ==
    IF s.text = <<>> /\ s.has_image THEN ImagePrefix \o Str(s.id) ELSE s.text

\* lines 432-436: the sub-shapes with a text, under the key <id>_<text>
RECURSIVE map_sub_shapes(_, _, _)
map_sub_shapes(m, s, subs) ==
    IF subs = <<>> THEN m
    ELSE map_sub_shapes(
             IF Head(subs).text # <<>>
             THEN map_put(m, Str(s.id) \o <<"_">> \o Head(subs).text, Head(subs).text)
             ELSE m,
             s, Tail(subs))

\* lines 422-436: shape_map
RECURSIVE build_shape_map(_, _)
build_shape_map(m, shapes) ==
    IF shapes = <<>> THEN m
    ELSE LET s == Head(shapes)
             own == IF IsTrue(s.id) /\ label_text(s) # <<>>
                    THEN map_put(m, Str(s.id), label_text(s))
                    ELSE m
         IN build_shape_map(map_sub_shapes(own, s, s.sub_shapes), Tail(shapes))

\* lines 439-442: one node line per page-level media item
page_media_lines(page_media) ==
    [i \in 1..Len(page_media) |->
        <<Indent>> \o PageImagePrefix \o NatStr(i - 1) \o <<OpenLabel>>
            \o ImageGlyph \o PageImageLabel \o NatStr(i) \o <<CloseLabel>>]

\* mutant: double quotes are left in the label
display_text_raw(s) ==
    label_text(s) \o (IF s.has_image THEN (<<" ">> \o ImageGlyph) ELSE <<>>)

\* mutant: every node gets the image indicator
display_text_marked(s) ==
    replace(label_text(s), "\"", "'") \o (<<" ">> \o ImageGlyph)

\* lines 457-460: the label of a node
display_text(s) ==
    replace(label_text(s), "\"", "'") \o (IF s.has_image THEN (<<" ">> \o ImageGlyph) ELSE <<>>)

\* line 461
node_line(node, label) == <<Indent>> \o node \o <<OpenLabel>> \o label \o <<CloseLabel>>

\* lines 445-462: one node line per shape with a text and an identifier
\* whose node identifier has not been added yet
RECURSIVE shape_node_lines(_, _, _)
shape_node_lines(shapes, added_nodes, lines) ==
    IF shapes = <<>> THEN lines
    ELSE LET s == Head(shapes)
             node == sanitize_mermaid_id(label_text(s), s.id)
         IN IF label_text(s) # <<>> /\ IsTrue(s.id) /\ node \notin added_nodes
            THEN shape_node_lines(Tail(shapes), added_nodes \cup {node},
                                  Append(lines, node_line(node, display_text(s))))
            ELSE shape_node_lines(Tail(shapes), added_nodes, lines)

\* line 472 (and 499, 507)
edge_line(from_node, to_node) == <<Indent>> \o from_node \o <<Arrow>> \o to_node

\* mutant: only the source endpoint has to resolve
resolves_from_only(shape_map, from_id, to_id) == from_id \in DOMAIN shape_map

\* line 469
resolves(shape_map, from_id, to_id) ==
    from_id \in DOMAIN shape_map /\ to_id \in DOMAIN shape_map

\* an endpoint that does not resolve has no label; only the mutant asks
label_of(shape_map, k) == IF k \in DOMAIN shape_map THEN shape_map[k] ELSE <<"?">>

\* lines 468-472: the edge lines of the explicit connections
RECURSIVE connection_lines(_, _)
connection_lines(shape_map, connections) ==
    IF connections = <<>> THEN <<>>
    ELSE LET from_id == Head(connections)[1]
             to_id == Head(connections)[2]
             rest == connection_lines(shape_map, Tail(connections))
         IN IF resolves(shape_map, from_id, to_id)
            THEN <<edge_line(sanitize_mermaid_id(label_of(shape_map, from_id), StrVal(from_id)),
                             sanitize_mermaid_id(label_of(shape_map, to_id), StrVal(to_id)))>>
                 \o rest
            ELSE rest

Setup == <<"s", "e", "t", "u", "p">>
Staging == <<"s", "t", "a", "g", "i", "n", "g">>
Finalization == <<"f", "i", "n", "a", "l", "i", "z", "a", "t", "i", "o", "n">>

\* lines 484-490: the group of a shape, by its lower-cased text
shape_group(s) ==
    LET t == lower(s.text)
    IN IF Contains(t, Setup) \/ startswith(t, <<"0">>) \/ startswith(t, <<"1">>)
       THEN "setup"
       ELSE IF Contains(t, Staging) \/ startswith(t, <<"2">>)
       THEN "staging"
       ELSE IF Contains(t, Finalization) \/ startswith(t, <<"3">>)
       THEN "finalization"
       ELSE "none"

group_shapes(shapes, g) ==
    LET in_group(s) == shape_group(s) = g IN SelectSeq(shapes, in_group)

\* mutant: the last shape of each group is connected
flow_lines_last(from_shapes, to_shapes) ==
    IF from_shapes # <<>> /\ to_shapes # <<>>
    THEN LET s == from_shapes[Len(from_shapes)]
             t == to_shapes[Len(to_shapes)]
         IN IF s.text # <<>> /\ t.text # <<>>
            THEN <<edge_line(sanitize_mermaid_id(s.text, s.id),
                             sanitize_mermaid_id(t.text, t.id))>>
            ELSE <<>>
    ELSE <<>>

\* lines 493-499 and 501-507: the first shape of one group to the first
\* shape of the next
flow_lines(from_shapes, to_shapes) ==
    IF from_shapes # <<>> /\ to_shapes # <<>>
    THEN LET s == from_shapes[1]
             t == to_shapes[1]
         IN IF s.text # <<>> /\ t.text # <<>>
            THEN <<edge_line(sanitize_mermaid_id(s.text, s.id),
                             sanitize_mermaid_id(t.text, t.id))>>
            ELSE <<>>
    ELSE <<>>

\* lines 475-507
inferred_lines(shapes) ==
    flow_lines(group_shapes(shapes, "setup"), group_shapes(shapes, "staging"))
    \o flow_lines(group_shapes(shapes, "staging"), group_shapes(shapes, "finalization"))

\* lines 419-509: the list lines
mermaid_lines(pd) ==
    << <<Fence, "mermaid">>, <<"graph TD">> >>
    \o page_media_lines(pd.page_media)
    \o shape_node_lines(pd.shapes, {}, <<>>)
    \o (IF pd.connections # <<>>
        THEN << <<>>, <<"    %% Connections">> >>
             \o connection_lines(build_shape_map(EmptyMap, pd.shapes), pd.connections)
        ELSE << <<>>, <<"    %% Hierarchical structure (inferred)">> >>
             \o inferred_lines(pd.shapes))
    \o << <<Fence>> >>

generate_mermaid_diagram(pd) == join(<<"\n">>, mermaid_lines(pd))

(***************************************************************************)
(* Inputs of _generate_mermaid_diagram: page payloads as the tests build   *)
(* them and as _extract_page_data returns them.                            *)
(***************************************************************************)
DiagramShape(id, t, has_image, sub_shapes) ==
    [ text |-> t, name |-> <<>>, id |-> id, type |-> <<>>,
      sub_shapes |-> sub_shapes, connections |-> <<>>, has_image |-> has_image ]

Start == <<"S", "t", "a", "r", "t">>
Process == <<"P", "r", "o", "c", "e", "s", "s">>
End == <<"E", "n", "d">>
Quoted == <<"a", " ", "\"", "b", "\"">>

\* test_generate_mermaid_diagram_basic
ExampleShapes ==
    << DiagramShape(StrVal(<<"1">>), Start, FALSE, <<>>),
       DiagramShape(StrVal(<<"2">>), Process, FALSE, <<>>),
       DiagramShape(StrVal(<<"3">>), End, FALSE, <<>>) >>
ExampleConnections == << << <<"1">>, <<"2">> >>, << <<"2">>, <<"3">> >> >>

\* shapes of pages with connections: a repeated identifier, quotes in the
\* text and in the identifier, textless image shapes, a shape without
\* identifier, an integer identifier, a sub-shape with a text
ConnectedShapes ==
    { DiagramShape(StrVal(<<"1">>), Start, FALSE, <<>>),
      DiagramShape(StrVal(<<"1">>), Quoted, FALSE, <<>>),
      DiagramShape(StrVal(<<"3">>), <<>>, TRUE, <<>>),
      DiagramShape(StrVal(<<"q", "\"">>), <<>>, TRUE, <<>>),
      DiagramShape(NoneVal, End, FALSE, <<>>),
      DiagramShape(IntVal(2), <<"a", " ", "b">>, TRUE,
                   << DiagramShape(NoneVal, <<"s">>, FALSE, <<>>) >>) }

ConnectionPairs ==
    { << <<"1">>, <<"2">> >>, << <<"2">>, <<"1">> >>, << <<"1">>, <<"9">> >>,
      << <<"9">>, <<"2">> >>, << <<"2", "_", "s">>, <<"3">> >> }

\* shapes of pages without connections: texts of the three groups, and a
\* text that reads like the identifier of a page-level media node
InferredShapes ==
    { DiagramShape(StrVal(<<"1">>), <<"S", "e", "t", "u", "p">>, FALSE, <<>>),
      DiagramShape(StrVal(<<"2">>), <<"2", " ", "b">>, FALSE, <<>>),
      DiagramShape(StrVal(<<"3">>), <<"3">>, TRUE, <<>>),
      DiagramShape(IntVal(0), <<"S", "T", "A", "G", "I", "N", "G">>, FALSE, <<>>),
      DiagramShape(StrVal(<<"5">>), Quoted, FALSE, <<>>),
      DiagramShape(StrVal(<<"6">>), <<>>, TRUE, <<>>),
      DiagramShape(StrVal(<<"7">>), PageImagePrefix \o <<"0">>, FALSE, <<>>) }

PageMediaLists ==
    {[i \in 1..n |-> MediaItem(IntVal(i - 1), BytesVal(1), "page.media")] : n \in 0..MaxMedia}

Count(q, P(_)) == Cardinality({i \in 1..Len(q) : P(q[i])})

DiagramPage(shapes, connections, page_media) ==
    [ name |-> <<"P">>,
      shapes |-> shapes,
      connections |-> connections,
      images_count |-> Len(page_media) + Count(shapes, LAMBDA s : s.has_image),
      page_media |-> page_media ]

\* pages with shapes of all three groups, two of them in one group, and a
\* text that names one group and starts like another; with no connection,
\* with one that resolves and with one that does not
StagedShapes ==
    { << DiagramShape(StrVal(<<"1">>), <<"S", "e", "t", "u", "p">>, FALSE, <<>>),
         DiagramShape(StrVal(<<"2">>), <<"2", " ", "b">>, FALSE, <<>>),
         DiagramShape(StrVal(<<"4">>), <<"S", "T", "A", "G", "I", "N", "G">>, FALSE, <<>>),
         DiagramShape(StrVal(<<"3">>), <<"3">>, TRUE, <<>>) >>,
      << DiagramShape(StrVal(<<"3">>), <<"F", "i", "n", "a", "l", "i", "z", "a", "t", "i", "o", "n">>,
                      FALSE, <<>>),
         DiagramShape(StrVal(<<"2">>), <<"1", " ", "s", "t", "a", "g", "i", "n", "g">>, FALSE, <<>>),
         DiagramShape(NoneVal, <<"2", "x">>, FALSE, <<>>),
         DiagramShape(StrVal(<<"1">>), <<"0", "a">>, FALSE, <<>>) >> }
StagedConnections ==
    { <<>>, << << <<"1">>, <<"2">> >> >>, << << <<"9">>, <<"9">> >> >> }

DiagramPages ==
    {DiagramPage(ExampleShapes, ExampleConnections, <<>>)}
    \cup {DiagramPage(s, c, <<>>) : s \in StagedShapes, c \in StagedConnections}
    \cup {DiagramPage(s, c, <<>>) :
            s \in SeqsUpTo(ConnectedShapes, MaxDiagramShapes),
            c \in SeqsUpTo(ConnectionPairs, MaxConnections) \ {<<>>}}
    \cup {DiagramPage(s, <<>>, m) :
            s \in SeqsUpTo(InferredShapes, MaxDiagramShapes), m \in PageMediaLists}

InitMermaid ==
    /\ pc = "call"
    /\ page_data \in DiagramPages
    /\ page = Idle
    /\ mermaid = Idle
    /\ data = Idle
    /\ markdown = Idle
    /\ SanIdle
    /\ ShapeIdle
    /\ ConvIdle
    /\ HelperIdle

\* a call _generate_mermaid_diagram(page_data)
GenerateMermaidDiagram ==
    /\ pc = "call"
    /\ mermaid' = generate_mermaid_diagram(page_data)
    /\ pc' = "return"
    /\ UNCHANGED <<page, page_data, data, markdown>>

NextMermaid == GenerateMermaidDiagram /\ UNCHANGED <<sanVars, shapeVars, convVars, helperVars>>

SpecMermaid == InitMermaid /\ [][NextMermaid]_vars

(***************************************************************************)
(* Reading a diagram block back: its lines, and the node and edge lines    *)
(* among them.                                                             *)
(***************************************************************************)
RECURSIVE SplitLines(_)
SplitLines(block) ==
    IF \A i \in 1..Len(block) : block[i] # "\n" THEN <<block>>
    ELSE LET i == CHOOSE j \in 1..Len(block) :
                      block[j] = "\n" /\ \A k \in 1..(j - 1) : block[k] # "\n"
         IN <<SubSeq(block, 1, i - 1)>> \o SplitLines(SubSeq(block, i + 1, Len(block)))

Position(l, token) == CHOOSE i \in 1..Len(l) : l[i] = token /\ \A k \in 1..(i - 1) : l[k] # token
IsNodeLine(l) == OpenLabel \in Range(l) /\ l[1] = Indent /\ l[Len(l)] = CloseLabel
IsEdgeLine(l) == Arrow \in Range(l)
NodeOf(l) == SubSeq(l, 2, Position(l, OpenLabel) - 1)
LabelOf(l) == SubSeq(l, Position(l, OpenLabel) + 1, Len(l) - 1)
NodeLines(block) == SelectSeq(SplitLines(block), IsNodeLine)
EdgeLines(block) == SelectSeq(SplitLines(block), IsEdgeLine)
\* the node lines of the shapes follow those of the page-level media
ShapeNodeLines(block, pd) ==
    SubSeq(NodeLines(block), Len(pd.page_media) + 1, Len(NodeLines(block)))

EndsWith(s, suffix) ==
    Len(s) >= Len(suffix) /\ SubSeq(s, Len(s) - Len(suffix) + 1, Len(s)) = suffix

\* the connections of the page both of whose endpoints have a known label
KnownLabels == build_shape_map(EmptyMap, page_data.shapes)
Resolvable(c) == c[1] \in DOMAIN KnownLabels /\ c[2] \in DOMAIN KnownLabels
ResolvedConnections == SelectSeq(page_data.connections, Resolvable)

\* C8: in the block of a page that has connections, the edge lines are, in
\* connection order, one line "<id of from's label> --> <id of to's label>"
\* per connection both of whose endpoints resolve to a known label, and none
\* for the other connections; the page of shapes Start, Process, End with
\* the connections (1,2), (2,3) has three node lines and exactly the edge
\* lines Start --> Process and Process --> End.
C8_EdgePerResolvedConnection ==
    (pc = "return" /\ page_data.connections # <<>>) =>
        /\ EdgeLines(mermaid) =
              [i \in 1..Len(ResolvedConnections) |->
                  <<Indent>>
                  \o sanitize_mermaid_id(KnownLabels[ResolvedConnections[i][1]],
                                         StrVal(ResolvedConnections[i][1]))
                  \o <<Arrow>>
                  \o sanitize_mermaid_id(KnownLabels[ResolvedConnections[i][2]],
                                         StrVal(ResolvedConnections[i][2]))]
        /\ (page_data.shapes = ExampleShapes /\ page_data.connections = ExampleConnections) =>
              /\ Len(NodeLines(mermaid)) = 3
              /\ EdgeLines(mermaid) = << <<Indent>> \o Start \o <<Arrow>> \o Process,
                                         <<Indent>> \o Process \o <<Arrow>> \o End >>

\* a page with two connections of which one resolves, and one edge line
C8_Witness ==
    /\ pc = "return"
    /\ Len(page_data.connections) = 2
    /\ Len(ResolvedConnections) = 1
    /\ Len(EdgeLines(mermaid)) = 1

\* the shapes that get a node: a text or an image, and a truthy identifier
Declared(s) == (s.text # <<>> \/ s.has_image) /\ IsTrue(s.id)
BaseLabel(s) == IF s.text # <<>> THEN s.text ELSE ImagePrefix \o Str(s.id)
\* the first shape of the page whose node identifier is n
FirstShapeOfNode(n) ==
    LET declared == SelectSeq(page_data.shapes, Declared)
        at == {i \in 1..Len(declared) :
                  sanitize_mermaid_id(BaseLabel(declared[i]), declared[i].id) = n}
    IN declared[CHOOSE i \in at : \A j \in at : i <= j]

ConnArrow == <<" ", "(U+00E2)", "(U+2020)", "(U+2019)", " ">>
CheckMark == <<"(U+00E2)", "(U+0153)", "(U+2026)">>
MetadataHeader == "## Metadata"
BulletOpen == "- **"
BulletClose == "**: "

\* str.title(): the first letter of every run of letters in upper case, the
\* others in lower case
upper_char(c) ==
    IF c \in LowerChars THEN UpperSeq[CHOOSE i \in 1..Len(LowerSeq) : LowerSeq[i] = c] ELSE c
IsLetter(c) == c \in LowerChars \cup UpperChars
title(s) ==
    [i \in 1..Len(s) |->
        IF i > 1 /\ IsLetter(s[i - 1]) THEN lower_char(s[i]) ELSE upper_char(s[i])]

\* mutant: the section is emitted for every non-empty mapping
has_metadata_nonempty(md) == IsTrue(md)

\* line 528: data.get('metadata') and any(data['metadata'].values())
has_metadata(md) ==
    IsTrue(md) /\ \E i \in 1..Len(md.items) : IsTrue(md.items[i][2])

\* mutant: a bullet for every field
emits_bullet_always(value) == TRUE

\* line 531: if value
emits_bullet(value) == IsTrue(value)

\* lines 530-532
RECURSIVE metadata_bullets(_)
metadata_bullets(items) ==
    IF items = <<>> THEN <<>>
    ELSE (IF emits_bullet(Head(items)[2])
          THEN << <<BulletOpen>> \o title(Str(Head(items)[1])) \o <<BulletClose>>
                  \o Str(Head(items)[2]) >>
          ELSE <<>>)
         \o metadata_bullets(Tail(items))

\* lines 528-533
metadata_section(md) ==
    IF has_metadata(md)
    THEN << <<MetadataHeader, "\n">> >> \o metadata_bullets(md.items) \o << <<>> >>
    ELSE <<>>

\* lines 548-552
page_media_section(page_media) ==
    IF page_media = <<>> THEN <<>>
    ELSE << <<"#### Page-Level Media (">> \o NatStr(Len(page_media)) \o <<" items)", "\n">> >>
         \o join(<<>>, [i \in 1..Len(page_media) |->
                << <<"**Media Item ">> \o NatStr(i) \o <<"** (Source: ", page_media[i].source, ")">>,
                   <<>> >>])

\* mutant: the diagram of a page with shapes only
diagram_section_shapes_only(pg) ==
    IF pg.shapes # <<>>
    THEN << <<"#### Diagram", "\n">>, generate_mermaid_diagram(pg), <<>> >>
    ELSE <<>>

\* lines 555-559
diagram_section(pg) ==
    IF pg.shapes # <<>> \/ pg.page_media # <<>>
    THEN << <<"#### Diagram", "\n">>, generate_mermaid_diagram(pg), <<>> >>
    ELSE <<>>

\* lines 562-566
connections_section(connections) ==
    IF connections = <<>> THEN <<>>
    ELSE << <<"#### Connections (">> \o NatStr(Len(connections)) \o <<" total)", "\n">> >>
         \o [i \in 1..Len(connections) |->
                <<"- Shape ">> \o connections[i][1] \o ConnArrow
                \o <<"Shape ">> \o connections[i][2]]
         \o << <<>> >>

\* lines 576-577: the shapes that get a numbered entry
has_content(s) ==
    s.text # <<>> \/ s.name # <<>> \/ s.type # <<>> \/ s.sub_shapes # <<>> \/ s.has_image

\* lines 600-604: a line per sub-shape with a text or an image; the record
\* always has the key text, so the default of line 603 is never taken
sub_shape_lines(sub_shapes) ==
    LET listed(sub) == sub.text # <<>> \/ sub.has_image
        line(sub) == <<"  - ">> \o sub.text
                     \o (IF sub.has_image THEN <<" ">> \o ImageGlyph ELSE <<>>)
        subs == SelectSeq(sub_shapes, listed)
    IN [i \in 1..Len(subs) |-> line(subs[i])]

\* lines 579-606: the entry of one shape, numbered shape_num
shape_entry(s, shape_num) ==
    << <<"##### Shape ">> \o NatStr(shape_num) >>
    \o (IF s.type # <<>> THEN << <<BulletOpen, "Type", BulletClose>> \o s.type >> ELSE <<>>)
    \o (IF s.name # <<>> THEN << <<BulletOpen, "Name", BulletClose>> \o s.name >> ELSE <<>>)
    \o (IF s.text # <<>> THEN << <<BulletOpen, "Text", BulletClose>> \o strip(s.text) >> ELSE <<>>)
    \o (IF s.id.kind # "none" THEN << <<BulletOpen, "ID", BulletClose>> \o Str(s.id) >> ELSE <<>>)
    \o (IF s.has_image
        THEN << <<BulletOpen, "Contains Image", BulletClose>> \o CheckMark \o <<" Yes">> >>
        ELSE <<>>)
    \o (IF s.sub_shapes # <<>>
        THEN << <<BulletOpen, "Sub-shapes", BulletClose>> \o NatStr(Len(s.sub_shapes)) >>
             \o sub_shape_lines(s.sub_shapes)
        ELSE <<>>)
    \o << <<>> >>

\* lines 569-611
shapes_section(shapes) ==
    IF shapes = <<>> THEN << <<"*No shapes found on this page*", "\n">> >>
    ELSE LET shown == SelectSeq(shapes, has_content)
         IN << <<"#### Detailed Shape Information", "\n">>,
               <<"**Total shapes**: ">> \o NatStr(Len(shapes)) \o <<"\n">> >>
            \o join(<<>>, [i \in 1..Len(shown) |-> shape_entry(shown[i], i)])
            \o (IF shown = <<>>
                THEN << <<"*No shapes with content found on this page*", "\n">> >>
                ELSE <<>>)

\* lines 542-611: the entries of page idx
page_section(pg, idx) ==
    << <<"### Page ">> \o NatStr(idx) \o <<": ">> \o pg.name \o <<"\n">> >>
    \o (IF pg.images_count > 0
        THEN << <<"**Images found on this page**: ">> \o NatStr(pg.images_count) \o <<"\n">> >>
        ELSE <<>>)
    \o page_media_section(pg.page_media)
    \o diagram_section(pg)
    \o connections_section(pg.connections)
    \o shapes_section(pg.shapes)

\* mutant: the line of the image total reads "<n> total"
markdown_entries_total(d) ==
    << <<"# ">> \o d.file_name \o <<"\n">> >>
    \o metadata_section(d.metadata)
    \o << <<"**Total Images Found**: ">> \o NatStr(d.total_images) \o <<" total", "\n">>,
          <<"## Pages (">> \o NatStr(Len(d.pages)) \o <<" total)", "\n">> >>
    \o join(<<>>, [idx \in 1..Len(d.pages) |-> page_section(d.pages[idx], idx)])

\* lines 522-613: the list markdown
markdown_entries(d) ==
    << <<"# ">> \o d.file_name \o <<"\n">> >>
    \o metadata_section(d.metadata)
    \o << <<"**Total Images Found**: ">> \o NatStr(d.total_images) \o <<"\n">>,
          <<"## Pages (">> \o NatStr(Len(d.pages)) \o <<" total)", "\n">> >>
    \o join(<<>>, [idx \in 1..Len(d.pages) |-> page_section(d.pages[idx], idx)])

to_markdown(d) == join(<<"\n">>, markdown_entries(d))

(***************************************************************************)
(* Inputs of _to_markdown: documents as convert builds them and as the     *)
(* tests do.  A metadata of None stands for a document without the key.    *)
(***************************************************************************)
FileName == <<"t", ".", "v", "s", "d", "x">>
MetaKeys ==
    << StrVal(<<"t", "i", "t", "l", "e">>),
       StrVal(<<"c", "r", "e", "a", "t", "o", "r">>),
       StrVal(<<"c", "o", "m", "p", "a", "n", "y">>) >>
MetaValues == {StrVal(<<>>), NoneVal, IntVal(0), IntVal(7), StrVal(<<"T", " ", "d">>)}
Metadatas ==
    {NoneVal, DictVal(<<>>)}
    \cup {DictVal([i \in 1..3 |-> <<MetaKeys[i], v[i]>>]) : v \in [1..3 -> MetaValues]}

DocPages ==
    { DiagramPage(<<>>, <<>>, <<>>),
      DiagramPage(<<>>, <<>>, [i \in 1..1 |-> MediaItem(IntVal(0), BytesVal(1), "page.media")]),
      DiagramPage(ExampleShapes, ExampleConnections, <<>>),
      DiagramPage(<< [DiagramShape(StrVal(<<"1">>), <<" ", "a">>, FALSE, <<>>)
                         EXCEPT !.name = <<"S", "1">>, !.type = <<"R">>],
                     DiagramShape(IntVal(7), <<>>, FALSE, <<>>),
                     DiagramShape(NoneVal, <<>>, TRUE,
                                  << DiagramShape(IntVal(0), <<>>, TRUE, <<>>),
                                     DiagramShape(NoneVal, <<"s">>, FALSE, <<>>) >>) >>,
                  <<>>, <<>>) }

RECURSIVE SumImages(_)
SumImages(records) ==
    IF records = <<>> THEN 0 ELSE Head(records).images_count + SumImages(Tail(records))

Documents ==
    {[ file_name |-> FileName, pages |-> p, metadata |-> m, total_images |-> SumImages(p) ] :
        p \in SeqsUpTo(DocPages, MaxDocPages), m \in Metadatas}

InitMarkdown ==
    /\ pc = "call"
    /\ data \in Documents
    /\ markdown = Idle
    /\ mermaid = Idle
    /\ SanIdle
    /\ ShapeIdle
    /\ PageIdle
    /\ ConvIdle
    /\ HelperIdle

\* a call _to_markdown(data)
ToMarkdown ==
    /\ pc = "call"
    /\ markdown' = to_markdown(data)
    /\ pc' = "return"
    /\ UNCHANGED <<data, mermaid>>

NextMarkdown == ToMarkdown /\ UNCHANGED <<sanVars, shapeVars, pageVars, convVars, helperVars>>

SpecMarkdown == InitMarkdown /\ [][NextMarkdown]_vars

\* the lines of the document between the title (and the empty line after
\* it) and the line of the image total
SummaryAt(lines) ==
    CHOOSE i \in 1..Len(lines) : lines[i] # <<>> /\ lines[i][1] = "**Total Images Found**: "
MetadataLines(doc) == SubSeq(SplitLines(doc), 3, SummaryAt(SplitLines(doc)) - 1)
IsBullet(l) == l # <<>> /\ l[1] = BulletOpen
IsMetadataHeader(l) == l = <<MetadataHeader>>
\* the fields of the mapping, none when it is absent
MetadataFields == IF data.metadata.kind = "dict" THEN data.metadata.items ELSE <<>>
\* a value is empty when it is None, the empty string or zero
NonEmptyValue(f) == f[2] \notin {NoneVal, StrVal(<<>>), IntVal(0)}
NonEmptyFields == SelectSeq(MetadataFields, NonEmptyValue)
Capitalized(k) == <<upper_char(k[1])>> \o Tail(k)

\* C10: the document has no metadata section at all when every value of the
\* metadata is empty or the mapping is empty or absent; otherwise it has the
\* section, with one bullet "- **<Field>**: <value>" per non-empty field, in
\* the order of the fields, and no bullet for an empty one.
C10_MetadataSection ==
    pc = "return" =>
        IF NonEmptyFields = <<>>
        THEN MetadataLines(markdown) = <<>>
        ELSE /\ Len(SelectSeq(MetadataLines(markdown), IsMetadataHeader)) = 1
             /\ MetadataLines(markdown)[1] = <<MetadataHeader>>
             /\ SelectSeq(MetadataLines(markdown), IsBullet) =
                   [i \in 1..Len(NonEmptyFields) |->
                       <<BulletOpen>> \o Capitalized(NonEmptyFields[i][1].s)
                       \o <<BulletClose>> \o Str(NonEmptyFields[i][2])]

\* a document whose metadata has an empty and a non-empty value, rendered
\* with the section
C10_Witness ==
    /\ pc = "return"
    /\ Len(MetadataFields) = 3
    /\ Len(NonEmptyFields) = 1
    /\ \E i \in 1..Len(MetadataLines(markdown)) : IsBullet(MetadataLines(markdown)[i])

(***************************************************************************)
(* convert.  The call is followed step by step: the checks before the      *)
(* file is opened, the opening with the metadata and the enumeration of    *)
(* the pages, one step per page of the loop, and the return.  world holds  *)
(* what the call finds: whether the vsdx library can be imported, whether  *)
(* the file exists, and the reader object VisioFile gives, or its failure. *)
(***************************************************************************)
\* an exception of class exc whose message is msg
Raises(exc, msg) == [kind |-> "raise", exc |-> exc, msg |-> msg]

\* Path(file_path).suffix: from the last dot of the name, "" without a dot
\* or when the only dot leads the name
suffix(name) ==
    LET dots == {i \in 2..Len(name) : name[i] = "."}
    IN IF dots = {} THEN <<>>
       ELSE SubSeq(name, CHOOSE i \in dots : \A j \in dots : j <= i, Len(name))

VsdxSuffix == <<".", "v", "s", "d", "x">>

\* mutant: the suffix is compared as written
supported_exact(name) == suffix(name) = VsdxSuffix

\* line 643
supported(name) == lower(suffix(name)) = VsdxSuffix

\* lines 633-636, 641, 644-647 and 697: the messages
ImportMessage ==
    <<"The 'vsdx' library is required to read Visio files. Install it with: pip install vsdx">>
NotFoundMessage(name) == <<"File not found: ">> \o name
UnsupportedMessage(name) ==
    <<"Unsupported file format: ">> \o suffix(name) \o <<". Only .vsdx files are supported.">>
\* mutant: the message of the original exception is dropped
ReadFailureMessage_bare(cause) == <<"Error reading Visio file">>

ReadFailureMessage(cause) == <<"Error reading Visio file: ">> \o cause

\* an operation that raised, with the message of its exception
Failure(msg) == [ok |-> FALSE, msg |-> msg]
\* an iterable that yields items and then raises with the message msg
GenVal(items, msg) == [kind |-> "gen", items |-> items, msg |-> msg]

\* getattr(obj, name, default): the default on AttributeError only
getattr_default(obj, name, default) ==
    IF name \notin DOMAIN obj THEN Ok(default)
    ELSE IF obj[name].kind = "field" THEN Ok(obj[name].v)
    ELSE Raise

\* lines 661-670: the metadata mapping; {} when the reader has no
\* app_properties or when reading them raises
extract_metadata(h, vis) ==
    LET app_props == AttrsOf(h, vis["app_properties"].v)
        t == getattr_default(app_props, "title", StrVal(<<>>))
        c == getattr_default(app_props, "creator", StrVal(<<>>))
        m == getattr_default(app_props, "company", StrVal(<<>>))
    IN IF hasattr(vis, "app_properties") # "true" THEN DictVal(<<>>)
       ELSE IF ~t.ok \/ ~c.ok \/ ~m.ok THEN DictVal(<<>>)
       ELSE DictVal(<< <<MetaKeys[1], t.v>>, <<MetaKeys[2], c.v>>, <<MetaKeys[3], m.v>> >>)

\* lines 673-677: the pages the loop runs over, Raise when the attribute is
\* missing or raises, when calling it raises, or when it is not iterable
enumerate_pages(vis) ==
    IF "pages" \notin DOMAIN vis
    THEN Failure(<<"'VisioFile' object has no attribute 'pages'">>)
    ELSE CASE vis["pages"].kind \in {"badprop", "raising"} -> Failure(<<"pages failed">>)
           [] vis["pages"].v.kind = "gen" -> Ok(vis["pages"].v.items)
           [] Iterate(vis["pages"].v).ok -> Iterate(vis["pages"].v)
           [] OTHER -> Failure(<<"object is not iterable">>)

\* line 677: the iteration raises once the pages it yields are processed
iteration_fails(vis) ==
    /\ "pages" \in DOMAIN vis
    /\ vis["pages"].kind \in {"field", "method"}
    /\ vis["pages"].v.kind = "gen"

\* lines 652 and 673-677: Raise when VisioFile raises
open_pages(w) == IF w.vis.ok THEN enumerate_pages(w.vis.v) ELSE Failure(w.vis.msg)

\* mutant: the total counts the page-level media only
page_images_media_only(pd) == Len(pd.page_media)

\* line 681: page_data.get("images_count", 0)
page_images(pd) == pd.images_count

\* str() of a metadata value raises inside _to_markdown
renders(d) == \A i \in 1..Len(d.metadata.items) : d.metadata.items[i][2].kind # "badstr"

\* lines 630-647: the library is missing, the file is, or its suffix is wrong
ConvertRejects ==
    /\ pc = "call"
    /\ ~world.vsdx_installed \/ ~world.exists \/ ~supported(file_path)
    /\ returned' = IF ~world.vsdx_installed THEN Raises("ImportError", ImportMessage)
                   ELSE IF ~world.exists
                   THEN Raises("FileNotFoundError", NotFoundMessage(file_path))
                   ELSE Raises("ValueError", UnsupportedMessage(file_path))
    /\ pc' = "raised"
    /\ UNCHANGED <<file_path, output_format, world, result, pages, heap>>

\* lines 652-675, failing: VisioFile raises, or the enumeration of the pages
ConvertOpenFails ==
    /\ pc = "call"
    /\ world.vsdx_installed /\ world.exists /\ supported(file_path)
    /\ ~open_pages(world).ok
    /\ returned' = Raises("ValueError", ReadFailureMessage(open_pages(world).msg))
    /\ pc' = "raised"
    /\ UNCHANGED <<file_path, output_format, world, result, pages, heap>>

\* lines 652-675: the record is created, the metadata read, the pages listed
ConvertOpens ==
    /\ pc = "call"
    /\ world.vsdx_installed /\ world.exists /\ supported(file_path)
    /\ open_pages(world).ok
    /\ result' = [ file_name |-> file_path,
                   pages |-> <<>>,
                   metadata |-> extract_metadata(heap, world.vis.v),
                   total_images |-> 0 ]
    /\ pages' = open_pages(world).v
    /\ pc' = "loop"
    /\ UNCHANGED <<file_path, output_format, world, returned, heap>>

\* lines 677-681: a page is extracted, appended and counted
ConvertPage ==
    /\ pc = "loop"
    /\ pages # <<>>
    /\ \E r \in {extract_page_data(heap, AttrsOf(heap, Head(pages)))} :
          /\ r.ok
          /\ result' = [result EXCEPT !.pages = Append(@, r.v),
                                      !.total_images = @ + page_images(r.v)]
    /\ pages' = Tail(pages)
    /\ UNCHANGED <<pc, file_path, output_format, world, returned, heap>>

\* lines 682-683: a page whose extraction raises is skipped
ConvertSkipsPage ==
    /\ pc = "loop"
    /\ pages # <<>>
    /\ ~extract_page_data(heap, AttrsOf(heap, Head(pages))).ok
    /\ pages' = Tail(pages)
    /\ UNCHANGED <<pc, file_path, output_format, world, result, returned, heap>>

\* lines 688-693: the value for the requested format
ConvertReturns ==
    /\ pc = "loop"
    /\ pages = <<>>
    /\ ~iteration_fails(world.vis.v)
    /\ lower(output_format) = <<"j", "s", "o", "n">> \/ renders(result)
    /\ returned' =
          IF lower(output_format) = <<"m", "a", "r", "k", "d", "o", "w", "n">>
          THEN [kind |-> "markdown", markdown |-> to_markdown(result)]
          ELSE IF lower(output_format) = <<"j", "s", "o", "n">>
          THEN [kind |-> "json", json |-> result]
          ELSE [kind |-> "both", markdown |-> to_markdown(result), json |-> result]
    /\ pc' = "return"
    /\ UNCHANGED <<file_path, output_format, world, result, pages, heap>>

\* lines 677 and 695-697: the iteration over the pages raises after the
\* pages it yielded were processed; the record built so far is dropped
ConvertIterationFails ==
    /\ pc = "loop"
    /\ pages = <<>>
    /\ iteration_fails(world.vis.v)
    /\ returned' = Raises("ValueError", ReadFailureMessage(world.vis.v["pages"].v.msg))
    /\ pc' = "raised"
    /\ UNCHANGED <<file_path, output_format, world, result, pages, heap>>

\* lines 695-697: _to_markdown raises, convert raises ValueError
ConvertRenderFails ==
    /\ pc = "loop"
    /\ pages = <<>>
    /\ ~iteration_fails(world.vis.v)
    /\ lower(output_format) # <<"j", "s", "o", "n">> /\ ~renders(result)
    /\ returned' = Raises("ValueError", ReadFailureMessage(<<"__str__ failed">>))
    /\ pc' = "raised"
    /\ UNCHANGED <<file_path, output_format, world, result, pages, heap>>

(***************************************************************************)
(* Inputs of convert.                                                      *)
(***************************************************************************)
FilePaths ==
    { <<"t">> \o VsdxSuffix, <<"t", ".", "V", "S", "D", "X">>,
      <<"t", ".", "v", "s", "d">>, <<"t">> }

OutputFormats ==
    { <<"m", "a", "r", "k", "d", "o", "w", "n">>, <<"J", "S", "O", "N">>,
      <<"b", "o", "t", "h">>, <<"x", "m", "l">> }

\* the shapes of the pages: one with a text and an image, one whose text
\* cannot be read, two with a text only
ConvertHeap ==
    << [text |-> Field(StrVal(<<"A">>)), ID |-> Field(IntVal(1)),
        image_data |-> Field(BytesVal(3))],
       [text |-> Field(BadStr)],
       [text |-> Field(StrVal(<<"B">>)), ID |-> Field(IntVal(3))],
       [text |-> Field(StrVal(<<"C">>)), ID |-> Field(IntVal(4))] >>

\* pages: with a media item and an image shape; unnamed, with a shape that
\* is skipped and an image shape; with a shape that is skipped between two
\* others; two that cannot be read
ConvertPages ==
    { ObjVal([name |-> Field(StrVal(<<"P">>)), media |-> Field(ListVal(Payload(1))),
              shapes |-> Field(ListVal(<<RefVal(1)>>))]),
      ObjVal([name |-> Field(NoneVal),
              shapes |-> Field(ListVal(<<RefVal(2), RefVal(1)>>))]),
      ObjVal([name |-> Field(StrVal(<<"Q">>)),
              shapes |-> Field(ListVal(<<RefVal(3), RefVal(2), RefVal(4)>>))]),
      ObjVal([name |-> Field(BadStr), media |-> Field(ListVal(Payload(1)))]),
      ObjVal([name |-> Field(StrVal(<<"R">>)), shapes |-> BadProp]) }

AppProperties ==
    { [title |-> Field(StrVal(<<"T">>)), creator |-> Field(NoneVal)],
      [title |-> Field(EmptyStr), creator |-> Field(EmptyStr), company |-> Field(EmptyStr)],
      [title |-> Field(StrVal(<<"T">>)), company |-> BadProp],
      [title |-> Field(BadStr)] }

ReaderMetadata ==
    {NoAttrs, [app_properties |-> BadProp], [app_properties |-> Field(NoneVal)]}
    \cup {[app_properties |-> Field(ObjVal(a))] : a \in AppProperties}

ReaderPages ==
    {NoAttrs, [pages |-> BadProp], [pages |-> RaisingMethod], [pages |-> Field(NoneVal)]}
    \cup {[pages |-> Field(ListVal(q))] : q \in SeqsUpTo(ConvertPages, MaxPages)}
    \cup {[pages |-> Method(ListVal(q))] : q \in SeqsUpTo(ConvertPages, 1)}
    \cup {[pages |-> Field(GenVal(q, <<"page stream broke">>))] : q \in SeqsUpTo(ConvertPages, 1)}

Readers == {Failure(<<"not a zip file">>)} \cup {Ok(m @@ p) : m \in ReaderMetadata, p \in ReaderPages}

\* a readable or unreadable file with the library at hand, and the calls
\* that fail before the file is opened
Worlds ==
    {[vsdx_installed |-> TRUE, exists |-> TRUE, vis |-> v] : v \in Readers}
    \cup {[vsdx_installed |-> i, exists |-> e, vis |-> Failure(<<"not a zip file">>)] :
             i \in BOOLEAN, e \in BOOLEAN}

Init ==
    /\ pc = "call"
    /\ file_path \in FilePaths
    /\ output_format \in OutputFormats
    /\ world \in Worlds
    /\ heap = ConvertHeap
    /\ result = Idle
    /\ pages = Idle
    /\ returned = Idle
    /\ shape = Idle /\ depth = Idle /\ shape_info = Idle /\ stack = Idle
    /\ SanIdle
    /\ PageIdle
    /\ RenderIdle
    /\ HelperIdle

Next ==
    /\ \/ ConvertRejects
       \/ ConvertOpenFails
       \/ ConvertOpens
       \/ ConvertPage
       \/ ConvertSkipsPage
       \/ ConvertReturns
       \/ ConvertIterationFails
       \/ ConvertRenderFails
    /\ UNCHANGED <<sanVars, shape, depth, shape_info, stack, pageVars, renderVars, helperVars>>

Spec == Init /\ [][Next]_vars

\* C7: while convert runs over the pages and when it returns, total_images
\* of the document record is the sum of images_count over the page records
\* in its pages, whatever pages were skipped; the record returned is that
\* record.
C7_TotalImages ==
    /\ pc \in {"loop", "return"} => result.total_images = SumImages(result.pages)
    /\ (pc = "return" /\ returned.kind \in {"json", "both"}) =>
          /\ returned.json = result
          /\ returned.json.total_images = SumImages(returned.json.pages)

\* a document returned for a file of two pages of which one was skipped,
\* the other holding two images
C7_Witness ==
    /\ pc = "return"
    /\ returned.kind = "both"
    /\ Len(open_pages(world).v) = 2
    /\ Len(result.pages) = 1
    /\ result.total_images = 2

(***************************************************************************)
(* The report of an empty document.                                        *)
(***************************************************************************)
ImagesLine(doc) == SplitLines(doc)[SummaryAt(SplitLines(doc))]
PagesHeaderAt(lines) ==
    CHOOSE i \in 1..Len(lines) : lines[i] # <<>> /\ lines[i][1] = "## Pages ("
\* the line holds the text "0 total": the digit 0, not the end of a longer
\* number, followed by a fragment that starts with " total"
ReadsZeroTotal(l) ==
    \E i \in 1..(Len(l) - 1) :
        /\ l[i] = "0"
        /\ (i = 1 \/ l[i - 1] \notin DigitChars)
        /\ l[i + 1] \in {" total", " total)"}
NothingAfterPagesHeader(doc) ==
    \A i \in (PagesHeaderAt(SplitLines(doc)) + 1)..Len(SplitLines(doc)) : SplitLines(doc)[i] = <<>>

\* C11 as stated: the report of a document without pages has the file-name
\* header line and an images line reading "0 total", and nothing after the
\* header of the pages section.
C11_EmptyDocumentImagesLineZeroTotal ==
    (pc = "return" /\ data.pages = <<>>) =>
        /\ SplitLines(markdown)[1] = <<"# ">> \o data.file_name
        /\ ReadsZeroTotal(ImagesLine(markdown))
        /\ NothingAfterPagesHeader(markdown)

\* C11, amended: the report of a document without pages has the file-name
\* header line, the images line "**Total Images Found**: 0" and the header
\* "## Pages (0 total)" of the pages section, and nothing after that header:
\* "0 total" is read on the header of the pages section, not on the images
\* line.
C11_EmptyDocument ==
    (pc = "return" /\ data.pages = <<>>) =>
        /\ SplitLines(markdown)[1] = <<"# ">> \o data.file_name
        /\ ImagesLine(markdown) = <<"**Total Images Found**: ", "0">>
        /\ ~ReadsZeroTotal(ImagesLine(markdown))
        /\ ReadsZeroTotal(SplitLines(markdown)[PagesHeaderAt(SplitLines(markdown))])
        /\ SplitLines(markdown)[PagesHeaderAt(SplitLines(markdown))]
              = <<"## Pages (", "0", " total)">>
        /\ NothingAfterPagesHeader(markdown)

\* the report of a document without pages and with an empty metadata
\* mapping, as in test_empty_page_data
C11_Witness ==
    /\ pc = "return"
    /\ data.pages = <<>>
    /\ data.metadata = DictVal(<<>>)
    /\ markdown # Idle

(***************************************************************************)
(* The errors of convert.                                                  *)
(***************************************************************************)
\* the one accepted extension, compared without regard to case
AcceptedExtension(name) ==
    /\ Len(suffix(name)) = Len(VsdxSuffix)
    /\ \A i \in 1..Len(VsdxSuffix) : lower_char(suffix(name)[i]) = VsdxSuffix[i]
\* the call raised before the reader was opened: no record was created and
\* no page was listed
RaisedBeforeOpening == pc = "raised" /\ result = Idle /\ pages = Idle
IsNotFound == returned.exc = "FileNotFoundError" /\ returned.msg = NotFoundMessage(file_path)
IsUnsupportedFormat ==
    /\ returned.exc = "ValueError"
    /\ returned.msg[1] = "Unsupported file format: "

\* C12 as stated: convert on a path that does not exist fails with
\* FileNotFoundError, on an existing path whose extension is not .vsdx
\* (whatever the case) with ValueError "Unsupported file format", in both
\* cases before the reader is opened and without wrapping.
C12_PathErrors ==
    pc # "call" =>
        /\ ~world.exists => (RaisedBeforeOpening /\ IsNotFound)
        /\ (world.exists /\ ~AcceptedExtension(file_path)) =>
              (RaisedBeforeOpening /\ IsUnsupportedFormat)

\* C12, amended: the same when the vsdx library can be imported; when it
\* cannot, convert raises ImportError first, whatever the path.  A path that
\* exists and has the extension in any case is not rejected.
C12_PathErrorsAfterImport ==
    pc # "call" =>
        /\ (world.vsdx_installed /\ ~world.exists) => (RaisedBeforeOpening /\ IsNotFound)
        /\ (world.vsdx_installed /\ world.exists /\ ~AcceptedExtension(file_path)) =>
              (RaisedBeforeOpening /\ IsUnsupportedFormat)
        /\ ~world.vsdx_installed => (RaisedBeforeOpening /\ returned.exc = "ImportError")
        /\ (world.vsdx_installed /\ world.exists /\ AcceptedExtension(file_path)) =>
              ~(pc = "raised" /\ (IsNotFound \/ IsUnsupportedFormat))

\* an existing file with another extension and a reader that would open it:
\* rejected as unsupported, the reader untouched
C12_Witness ==
    /\ pc = "raised"
    /\ world.vsdx_installed /\ world.exists /\ world.vis.ok
    /\ ~AcceptedExtension(file_path)
    /\ IsUnsupportedFormat
    /\ result = Idle

(***************************************************************************)
(* Failures of one shape or of one page.                                   *)
(***************************************************************************)
\* the pages of the file the loop is done with
ProcessedPages ==
    SubSeq(open_pages(world).v, 1, Len(open_pages(world).v) - Len(pages))
PageFails(p) == ~extract_page_data(heap, AttrsOf(heap, p)).ok
PageSucceeds(p) == ~PageFails(p)
ShapeFails(sh) == ~extract_shape_info(heap, sh, 0).ok
ShapeSucceeds(sh) == ~ShapeFails(sh)
TopShapesOf(p) == get_shapes_from_object(AttrsOf(heap, p)).v
\* the records of the top-level shapes of page p that can be normalized
SurvivingShapes(p) ==
    LET kept == SelectSeq(TopShapesOf(p), ShapeSucceeds)
    IN [i \in 1..Len(kept) |-> extract_shape_info(heap, kept[i], 0).v]
SurvivingPages == SelectSeq(ProcessedPages, PageSucceeds)
\* nothing but a shape or a page fails: the file opens, the pages can be
\* listed to the end and the report can be rendered
OnlyUnitsFail ==
    /\ world.vsdx_installed /\ world.exists /\ AcceptedExtension(file_path)
    /\ open_pages(world).ok
    /\ ~iteration_fails(world.vis.v)
    /\ renders([metadata |-> extract_metadata(heap, world.vis.v)])

\* C13: a top-level shape whose normalization fails and a page whose
\* extraction fails contribute nothing and stop nothing: the pages of the
\* document are the records of the other pages, in order, the shapes of
\* each are the records of its other top-level shapes, in order, and the
\* conversion returns.
C13_FailuresAreSkipped ==
    /\ pc \in {"loop", "return"} =>
          /\ Len(result.pages) = Len(SurvivingPages)
          /\ \A i \in 1..Len(SurvivingPages) :
                /\ result.pages[i] = extract_page_data(heap, AttrsOf(heap, SurvivingPages[i])).v
                /\ result.pages[i].shapes = SurvivingShapes(SurvivingPages[i])
    /\ (pc # "call" /\ OnlyUnitsFail) => pc \in {"loop", "return"}
    /\ (pc = "return" /\ returned.kind \in {"json", "both"}) =>
          Len(returned.json.pages) = Len(SelectSeq(open_pages(world).v, PageSucceeds))

\* a document returned for a file whose first page cannot be read and whose
\* second page has a shape that cannot be normalized between two that can
C13_Witness ==
    /\ pc = "return"
    /\ Len(open_pages(world).v) = 2
    /\ PageFails(open_pages(world).v[1])
    /\ Len(result.pages) = 1
    /\ Len(result.pages[1].shapes) = 2
    /\ \E i \in 2..(Len(TopShapesOf(open_pages(world).v[2])) - 1) :
          ShapeFails(TopShapesOf(open_pages(world).v[2])[i])

\* the path passes the checks of lines 630-647
PathAccepted == world.vsdx_installed /\ world.exists /\ AcceptedExtension(file_path)
\* what the reader raised: on opening or listing, or in the middle of the
\* enumeration
OriginalMessage ==
    IF ~open_pages(world).ok THEN open_pages(world).msg ELSE world.vis.v["pages"].v.msg
IsReadFailure ==
    /\ pc = "raised"
    /\ returned = [kind |-> "raise", exc |-> "ValueError",
                   msg |-> <<"Error reading Visio file: ">> \o OriginalMessage]

\* C14: when the reader fails on opening the file or on enumerating its
\* pages, convert raises ValueError "Error reading Visio file: <original
\* message>" and returns nothing, whatever pages were processed before.
C14_ReadFailureAborts ==
    (pc # "call" /\ PathAccepted) =>
        /\ ~open_pages(world).ok => IsReadFailure
        /\ (open_pages(world).ok /\ iteration_fails(world.vis.v)) =>
              /\ pc # "return"
              /\ returned = Idle \/ IsReadFailure
              /\ (pc = "loop" /\ pages = <<>>) => ENABLED ConvertIterationFails

\* the enumeration failed after a page was extracted: the record holding
\* that page is dropped and the call has raised
C14_Witness ==
    /\ pc = "raised"
    /\ PathAccepted
    /\ open_pages(world).ok
    /\ iteration_fails(world.vis.v)
    /\ IsReadFailure
    /\ Len(result.pages) = 1

(***************************************************************************)
(* _get_attribute_value called alone, as in test_get_attribute_value: an   *)
(* object with a member of every kind, or without the member.              *)
(***************************************************************************)
MemberValues ==
    {NoneVal, IntVal(0), IntVal(7), StrVal(<<>>), StrVal(<<"v">>), ListVal(<<>>)}
Members ==
    {Field(v) : v \in MemberValues} \cup {Method(v) : v \in MemberValues}
    \cup {RaisingMethod, BadProp}
AccessorObjects ==
    {NoAttrs} \cup {[test_attr |-> m] : m \in Members}
    \cup {[test_attr |-> m, other |-> Field(IntVal(1))] : m \in {RaisingMethod, BadProp}}
AccessorDefaults == {NoneVal, StrVal(<<"d">>), IntVal(0), ListVal(<<>>)}

InitAccessor ==
    /\ pc = "call"
    /\ arg_obj \in AccessorObjects
    /\ arg_name \in {"test_attr", "nonexistent"}
    /\ arg_default \in AccessorDefaults
    /\ ret = Idle
    /\ SanIdle
    /\ ShapeIdle
    /\ PageIdle
    /\ RenderIdle
    /\ ConvIdle

\* a call _get_attribute_value(obj, attr_name, default); every exception is
\* caught at line 90, so the call always returns
GetAttributeValue ==
    /\ pc = "call"
    /\ ret' = get_attribute_value(arg_obj, arg_name, arg_default)
    /\ pc' = "return"
    /\ UNCHANGED <<arg_obj, arg_name, arg_default>>

NextAccessor ==
    GetAttributeValue /\ UNCHANGED <<sanVars, shapeVars, pageVars, renderVars, convVars>>

SpecAccessor == InitAccessor /\ [][NextAccessor]_vars

MemberPresent == arg_name \in DOMAIN arg_obj

\* C15: _get_attribute_value always returns: the value of a plain
\* attribute, the result of calling a member that can be called without
\* arguments, and the default as given when the member is absent or when
\* looking it up or calling it raises.
C15_SafeAccessor ==
    /\ pc \in {"call", "return"}
    /\ pc = "return" =>
          /\ ~MemberPresent => ret = arg_default
          /\ (MemberPresent /\ arg_obj[arg_name].kind = "field") => ret = arg_obj[arg_name].v
          /\ (MemberPresent /\ arg_obj[arg_name].kind = "method") => ret = arg_obj[arg_name].v
          /\ (MemberPresent /\ arg_obj[arg_name].kind \in {"raising", "badprop"}) =>
                ret = arg_default

\* the call of a member that raises returned the default given
C15_Witness ==
    /\ pc = "return"
    /\ MemberPresent
    /\ arg_obj[arg_name].kind = "raising"
    /\ arg_default = StrVal(<<"d">>)
    /\ ret = StrVal(<<"d">>)

(***************************************************************************)
(* The sub_shapes of a record.                                             *)
(***************************************************************************)
\* the retention predicate as the specification states it
RetainedAsStated(rec) ==
    \/ rec.text # <<>>
    \/ rec.name # <<>>
    \/ rec.sub_shapes # <<>>
    \/ rec.has_image
    \/ rec.id.kind # "none"
\* the records of the children of the shape of the call, in the order of
\* _get_shapes_from_object
NormalizedChildren ==
    LET children == get_shapes_from_object(heap[shape]).v
    IN [i \in 1..Len(children) |-> extract_shape_info(heap, children[i], depth + 1).v]

\* C16: for a shape normalized at depth < 5, sub_shapes is the sequence, in
\* order, of the normalized children with a non-empty text or name or
\* sub_shapes, an image, or a non-absent id; a child with nothing but the
\* id 0 is retained.
C16_SubShapesRetainNonAbsentId ==
    (pc = "return" /\ depth < MaxDepth) =>
        shape_info.sub_shapes = SelectSeq(NormalizedChildren, RetainedAsStated)

(***************************************************************************)
(* _extract_connections called alone, as in test_extract_connections: a    *)
(* shape with a connects collection of entries whose ends have an ID or    *)
(* none, and with or without the members of a one-dimensional shape.       *)
(***************************************************************************)
EndShape(id) == ObjVal([ID |-> Field(id)])
EndShapes == {EndShape(IntVal(1)), EndShape(StrVal(<<"2">>)), ObjVal(NoAttrs)}
ConnectEntries ==
    {ObjVal(NoAttrs)}
    \cup {ObjVal([from_shape |-> Field(f)]) : f \in EndShapes}
    \cup {ObjVal([to_shape |-> Field(t)]) : t \in EndShapes}
    \cup {ObjVal([from_shape |-> Field(f), to_shape |-> Field(t)]) :
            f \in EndShapes, t \in EndShapes}
ConnectsMembers ==
    {NoAttrs, [connects |-> BadProp], [connects |-> Field(NoneVal)],
     [connects |-> Field(IntVal(5))]}
    \cup {[connects |-> Field(ListVal(q))] : q \in SeqsUpTo(ConnectEntries, MaxConnects)}
OneDMembers ==
    { NoAttrs,
      [one_d |-> Field(IntVal(1)), begin_shape |-> Field(EndShape(IntVal(8))),
       end_shape |-> Field(EndShape(IntVal(9)))],
      [OneD |-> Field(IntVal(1)), begin_shape |-> Field(EndShape(IntVal(8)))],
      [one_d |-> BadProp],
      [OneD |-> BadProp],
      [one_d |-> Field(IntVal(1)), begin_shape |-> Field(EndShape(BadStr)),
       end_shape |-> Field(EndShape(IntVal(9)))] }
ConnectorShapes == {c @@ o : c \in ConnectsMembers, o \in OneDMembers}

InitConnections ==
    /\ pc = "call"
    /\ arg_obj \in ConnectorShapes
    /\ arg_name = Idle
    /\ arg_default = Idle
    /\ ret = Idle
    /\ SanIdle
    /\ ShapeIdle
    /\ PageIdle
    /\ RenderIdle
    /\ ConvIdle

\* a call _extract_connections(shape); every exception is caught at line
\* 138, so the call always returns
ExtractConnections ==
    /\ pc = "call"
    /\ ret' = extract_connections(heap, arg_obj)
    /\ pc' = "return"
    /\ UNCHANGED <<arg_obj, arg_name, arg_default>>

NextConnections ==
    ExtractConnections /\ UNCHANGED <<sanVars, shapeVars, pageVars, renderVars, convVars>>

SpecConnections == InitConnections /\ [][NextConnections]_vars

\* the entries of the connects collection of the shape, when it is a list
ConnectsOf(obj) ==
    IF "connects" \in DOMAIN obj /\ obj["connects"].kind = "field"
       /\ obj["connects"].v.kind = "list"
    THEN obj["connects"].v.items
    ELSE <<>>
\* the identifier of one end of an entry, None when the entry has no such
\* end or the end has no ID
EndId(entry, end) ==
    IF end \in DOMAIN entry.attrs /\ "ID" \in DOMAIN entry.attrs[end].v.attrs
    THEN entry.attrs[end].v.attrs["ID"].v
    ELSE NoneVal
IsComplete(entry) == EndId(entry, "from_shape") # NoneVal /\ EndId(entry, "to_shape") # NoneVal
CompleteEntries(obj) == SelectSeq(ConnectsOf(obj), IsComplete)
LastComplete(obj) == CompleteEntries(obj)[Len(CompleteEntries(obj))]
NotOneD(obj) == "one_d" \notin DOMAIN obj /\ "OneD" \notin DOMAIN obj

\* C17: Strategy A contributes the identifiers of the last connect entry
\* both of whose ends have one, as the pair (str(from), str(to)); ends of
\* different entries are never combined and an entry lacking an end leaves
\* the last complete pair as it is; without a complete entry it
\* contributes nothing.
C17_LastCompletePair ==
    (pc = "return" /\ NotOneD(arg_obj) /\ ConnectsOf(arg_obj) # <<>>) =>
        ret = IF CompleteEntries(arg_obj) = <<>> THEN <<>>
              ELSE << << Str(EndId(LastComplete(arg_obj), "from_shape")),
                         Str(EndId(LastComplete(arg_obj), "to_shape")) >> >>

\* a step of Strategy A, or of Strategy B run after it, raises
FailsInA(obj) == ~strategy_a(heap, obj).ok
FailsInB(obj) == strategy_a(heap, obj).ok /\ ~strategy_b(heap, obj, strategy_a(heap, obj).v).ok

\* C18: when any step of _extract_connections fails, in Strategy A or in
\* Strategy B, the call raises nothing and returns the empty sequence, also
\* when Strategy A had already produced a pair.
C18_FailureYieldsEmpty ==
    (pc = "return" /\ (FailsInA(arg_obj) \/ FailsInB(arg_obj))) => ret = <<>>

(***************************************************************************)
(* _get_shapes_from_object called alone, as in test_get_shapes_from_object:*)
(* an object whose three candidate members are each absent, a collection,  *)
(* a method, or a member that fails.                                       *)
(***************************************************************************)
CandidateElements == {RefVal(1), RefVal(2)}
CandidateLists == SeqsUpTo(CandidateElements, MaxCandidate)
CandidateMembers ==
    {Field(ListVal(q)) : q \in CandidateLists}
    \cup {Method(ListVal(q)) : q \in {<<>>, <<RefVal(1)>>, <<RefVal(2), RefVal(1)>>}}
    \cup {Field(TupleVal(<<RefVal(2), RefVal(1)>>)), Field(NoneVal), Field(IntVal(5)),
          Method(NoneVal), Method(RefVal(1)), RaisingMethod, BadProp}
CandidateObjects ==
    {s @@ c @@ u :
        s \in {NoAttrs} \cup {[shapes |-> m] : m \in CandidateMembers},
        c \in {NoAttrs} \cup {[child_shapes |-> m] : m \in CandidateMembers},
        u \in {NoAttrs} \cup {[sub_shapes |-> m] : m \in CandidateMembers}}

InitCollection ==
    /\ pc = "call"
    /\ arg_obj \in CandidateObjects
    /\ arg_name = Idle
    /\ arg_default = Idle
    /\ ret = Idle
    /\ SanIdle
    /\ ShapeIdle
    /\ PageIdle
    /\ RenderIdle
    /\ ConvIdle

\* a call _get_shapes_from_object(obj): it returns the list or the
\* exception of line 53 propagates
GetShapesFromObject ==
    /\ pc = "call"
    /\ ret' = get_shapes_from_object(arg_obj)
    /\ pc' = IF ret'.ok THEN "return" ELSE "raised"
    /\ UNCHANGED <<arg_obj, arg_name, arg_default>>

NextCollection ==
    GetShapesFromObject /\ UNCHANGED <<sanVars, shapeVars, pageVars, renderVars, convVars>>

SpecCollection == InitCollection /\ [][NextCollection]_vars

\* the elements a candidate yields: those of its collection, or of the
\* list its method returns (a non-list result counts as the one element);
\* nothing when it is absent, empty or fails
Yields(obj, name) ==
    IF name \notin DOMAIN obj THEN <<>>
    ELSE LET m == obj[name]
         IN IF m.kind = "field" /\ m.v.kind \in {"list", "tuple"} THEN m.v.items
            ELSE IF m.kind = "method" /\ m.v.kind = "list" THEN m.v.items
            ELSE IF m.kind = "method" /\ m.v.kind = "ref" THEN <<m.v>>
            ELSE <<>>
CandidateFails(obj, name) ==
    /\ name \in DOMAIN obj
    /\ \/ obj[name].kind \in {"raising", "badprop"}
       \/ obj[name].kind = "field" /\ obj[name].v.kind = "int"

\* C19: _get_shapes_from_object returns the concatenation, in the order
\* shapes, child_shapes, sub_shapes, of the elements each candidate yields,
\* in their order and without deduplication; an absent, empty or failing
\* candidate contributes nothing and does not stop the later candidates.
C19_ConcatenatesCandidates ==
    pc # "call" =>
        /\ pc = "return"
        /\ ret = Ok(Yields(arg_obj, "shapes") \o Yields(arg_obj, "child_shapes")
                    \o Yields(arg_obj, "sub_shapes"))
\* the same, for objects whose members can all be read
C19_ReadableCandidates ==
    (pc # "call" /\ \A n \in DOMAIN arg_obj : arg_obj[n].kind # "badprop") =>
        /\ pc = "return"
        /\ ret = Ok(Yields(arg_obj, "shapes") \o Yields(arg_obj, "child_shapes")
                    \o Yields(arg_obj, "sub_shapes"))

(***************************************************************************)
(* _extract_page_data on a page whose shapes, top-level or nested, may be  *)
(* connectors: a shape with a connects collection, or a one-dimensional    *)
(* shape with a begin and an end.                                          *)
(***************************************************************************)
ConnectorContents ==
    { [text |-> Field(StrVal(<<"A">>)), ID |-> Field(IntVal(1))],
      [text |-> Field(StrVal(<<"C">>)),
       connects |-> Field(ListVal(<<ObjVal([from_shape |-> Field(EndShape(IntVal(1))),
                                            to_shape |-> Field(EndShape(IntVal(2)))])>>))],
      [ID |-> Field(IntVal(7)), one_d |-> Field(IntVal(1)),
       begin_shape |-> Field(EndShape(IntVal(8))), end_shape |-> Field(EndShape(IntVal(9)))],
      [text |-> Field(BadStr)] }

ConnectorHeaps ==
    [ObjIds -> {c @@ [shapes |-> Field(ListVal(kids))] :
                   c \in ConnectorContents, kids \in ChildLists(1)}]

ConnectorPages ==
    {[name |-> Field(StrVal(<<"P">>)), shapes |-> Field(ListVal(tops))] :
        tops \in ChildLists(MaxShapes)}

InitPageConnections ==
    /\ pc = "call"
    /\ heap \in ConnectorHeaps
    /\ page \in ConnectorPages
    /\ page_data = Idle
    /\ shape = Idle
    /\ depth = Idle
    /\ shape_info = Idle
    /\ stack = Idle
    /\ SanIdle
    /\ RenderIdle
    /\ ConvIdle
    /\ HelperIdle

SpecPageConnections == InitPageConnections /\ [][NextPage]_vars

\* the shape records of a page record, nested ones included
RECURSIVE RecordsOf(_)
RecordsOf(infos) ==
    IF infos = <<>> THEN <<>>
    ELSE <<Head(infos)>> \o RecordsOf(Head(infos).sub_shapes) \o RecordsOf(Tail(infos))
RECURSIVE OwnConnections(_)
OwnConnections(infos) ==
    IF infos = <<>> THEN <<>>
    ELSE Head(infos).connections \o OwnConnections(Tail(infos))

\* C20: the connections of a page are the flattened union, in shape order,
\* of the connections of every shape normalized on the page, top-level or
\* nested: each pair of any shape's own connections is among the page's
\* connections, and the page's connections hold no other pair.
C20_PageConnectionsOfEveryShape ==
    pc = "return" =>
        Range(page_data.connections) = Range(OwnConnections(RecordsOf(page_data.shapes)))
\* the same of the top-level shapes alone
C20_TopLevelConnections ==
    pc = "return" => page_data.connections = OwnConnections(page_data.shapes)

(***************************************************************************)
(* Node identifiers of a diagram block                                     *)
(***************************************************************************)
NodeIds(block) == [i \in 1..Len(NodeLines(block)) |-> NodeOf(NodeLines(block)[i])]
Distinct(q) == \A i, j \in 1..Len(q) : i # j => q[i] # q[j]

\* C21: in one diagram block no node identifier is declared twice, over all
\* node-declaration lines of the block, those of the page-level media
\* included.
C21_NodeDeclaredOnce ==
    pc = "return" => Distinct(NodeIds(mermaid))
\* the same over the node lines of the shapes alone
C21_ShapeNodeDeclaredOnce ==
    pc = "return" =>
        Distinct([i \in 1..Len(ShapeNodeLines(mermaid, page_data)) |->
                     NodeOf(ShapeNodeLines(mermaid, page_data)[i])])

(***************************************************************************)
(* The fallback of a page without connections                              *)
(***************************************************************************)
InferredMarker == <<"    %% Hierarchical structure (inferred)">>
InSetup(s) ==
    Contains(lower(s.text), Setup) \/ startswith(lower(s.text), <<"0">>)
    \/ startswith(lower(s.text), <<"1">>)
InStaging(s) ==
    ~InSetup(s) /\ (Contains(lower(s.text), Staging) \/ startswith(lower(s.text), <<"2">>))
InFinalization(s) ==
    ~InSetup(s) /\ ~InStaging(s)
    /\ (Contains(lower(s.text), Finalization) \/ startswith(lower(s.text), <<"3">>))
\* one edge from the first shape of one bucket to the first of the other
FirstToFirst(from_bucket, to_bucket) ==
    IF from_bucket # <<>> /\ to_bucket # <<>>
    THEN << <<Indent>> \o sanitize_mermaid_id(from_bucket[1].text, from_bucket[1].id)
            \o <<Arrow>> \o sanitize_mermaid_id(to_bucket[1].text, to_bucket[1].id) >>
    ELSE <<>>

\* C22: on a page without connections the shapes are put, by their
\* lower-cased text, into the buckets setup, staging and finalization, and
\* the block holds one edge from the first setup shape to the first staging
\* shape when both buckets are non-empty, one from the first staging shape
\* to the first finalization shape when both are non-empty, and no other
\* edge; on a page with a connection the fallback is not applied.
C22_FallbackEdges ==
    pc = "return" =>
        IF page_data.connections = <<>>
        THEN EdgeLines(mermaid) =
                FirstToFirst(SelectSeq(page_data.shapes, InSetup),
                             SelectSeq(page_data.shapes, InStaging))
                \o FirstToFirst(SelectSeq(page_data.shapes, InStaging),
                                SelectSeq(page_data.shapes, InFinalization))
        ELSE /\ InferredMarker \notin Range(SplitLines(mermaid))
             /\ Len(EdgeLines(mermaid)) = Len(ResolvedConnections)

\* a page without connections with two staging shapes whose block holds
\* both edges
C22_Witness ==
    /\ pc = "return"
    /\ page_data.connections = <<>>
    /\ Len(SelectSeq(page_data.shapes, InStaging)) = 2
    /\ Len(EdgeLines(mermaid)) = 2
\* a page of shapes of all buckets with a connection that does not resolve,
\* whose block holds no edge
FallbackNotApplied ==
    /\ pc = "return"
    /\ page_data.connections # <<>>
    /\ SelectSeq(page_data.shapes, InSetup) # <<>>
    /\ SelectSeq(page_data.shapes, InStaging) # <<>>
    /\ EdgeLines(mermaid) = <<>>

(***************************************************************************)
(* Reading the report back page by page                                    *)
(***************************************************************************)
IsPageHeader(l) == l # <<>> /\ l[1] = "### Page "
PageHeaders(lines) == {i \in 1..Len(lines) : IsPageHeader(lines[i])}
\* the index of the header line of page k
PageStart(lines, k) ==
    CHOOSE i \in PageHeaders(lines) : Cardinality({j \in PageHeaders(lines) : j <= i}) = k
\* the lines of page k: from its header to the next header or the end
PageLines(doc, k) ==
    LET lines == SplitLines(doc)
        first == PageStart(lines, k)
        later == {i \in PageHeaders(lines) : i > first}
        last == IF later = {} THEN Len(lines)
                ELSE (CHOOSE i \in later : \A j \in later : i <= j) - 1
    IN SubSeq(lines, first, last)
NoShapesNotice == <<"*No shapes found on this page*">>
NoContentNotice == <<"*No shapes with content found on this page*">>
DiagramHeader == <<"#### Diagram">>
Occurrences(lines, l) == Cardinality({i \in 1..Len(lines) : lines[i] = l})
ShapelessPages == {k \in 1..Len(data.pages) : data.pages[k].shapes = <<>>}

\* C23: every page without shapes gets the "no shapes found" notice instead
\* of a diagram: the notice is present and no diagram subsection is emitted
\* for the page, with or without page-level media.
C23_NoticeInsteadOfDiagram ==
    pc = "return" =>
        \A k \in ShapelessPages :
            /\ Occurrences(PageLines(markdown, k), NoShapesNotice) = 1
            /\ Occurrences(PageLines(markdown, k), DiagramHeader) = 0

\* C23 (amended): every page without shapes gets the "no shapes found"
\* notice, once; the page has a diagram subsection as well exactly when it
\* has page-level media.
C23_NoticeAndMediaDiagram ==
    pc = "return" =>
        \A k \in ShapelessPages :
            /\ Occurrences(PageLines(markdown, k), NoShapesNotice) = 1
            /\ Occurrences(PageLines(markdown, k), DiagramHeader) =
                  IF data.pages[k].page_media # <<>> THEN 1 ELSE 0

\* a report with a page without shapes and without media and a page without
\* shapes and with media, the second with the notice and a diagram
C23_Witness ==
    /\ pc = "return"
    /\ \E k \in ShapelessPages : data.pages[k].page_media = <<>>
    /\ \E k \in ShapelessPages :
          /\ data.pages[k].page_media # <<>>
          /\ Occurrences(PageLines(markdown, k), NoShapesNotice) = 1
          /\ Occurrences(PageLines(markdown, k), DiagramHeader) = 1

IsShapeEntry(l) == l # <<>> /\ l[1] = "##### Shape "
PagesWithShapes == {k \in 1..Len(data.pages) : data.pages[k].shapes # <<>>}

\* C24: the detailed-shapes subsection lists a top-level shape if and only
\* if it satisfies the retention predicate of the shape normalizer (a text,
\* a name, sub-shapes, an image or a non-absent id); when no shape of a page
\* with shapes satisfies it, the "no shapes with content" notice is emitted
\* instead, once.
C24_ListedIffRetained ==
    pc = "return" =>
        \A k \in PagesWithShapes :
            LET listed == SelectSeq(data.pages[k].shapes, RetainedAsStated)
            IN /\ SelectSeq(PageLines(markdown, k), IsShapeEntry) =
                     [i \in 1..Len(listed) |-> <<"##### Shape ">> \o NatStr(i)]
               /\ Occurrences(PageLines(markdown, k), NoContentNotice) =
                     IF listed = <<>> THEN 1 ELSE 0
\* the same with the predicate of line 576: a text, a name, a type,
\* sub-shapes or an image
C24_ListedIffContent ==
    pc = "return" =>
        \A k \in PagesWithShapes :
            LET content(s) == s.text # <<>> \/ s.name # <<>> \/ s.type # <<>>
                              \/ s.sub_shapes # <<>> \/ s.has_image
                listed == SelectSeq(data.pages[k].shapes, content)
            IN /\ SelectSeq(PageLines(markdown, k), IsShapeEntry) =
                     [i \in 1..Len(listed) |-> <<"##### Shape ">> \o NatStr(i)]
               /\ Occurrences(PageLines(markdown, k), NoContentNotice) =
                     IF listed = <<>> THEN 1 ELSE 0

(***************************************************************************)
(* _extract_media_from_page called alone on a page whose media and images  *)
(* members are each absent, None, a list, a tuple, a mapping, a method     *)
(* returning a list or raising, or a property that raises.                 *)
(***************************************************************************)
MediaMapping(n) ==
    DictVal([i \in 1..n |-> << StrVal(<< <<"k">>, <<"j">>, <<"h">>, <<"g">> >>[i]), BytesVal(i) >>])
MediaCollections ==
    {Field(NoneVal), Field(TupleVal(Payload(1))), Method(ListVal(Payload(1))),
     RaisingMethod, BadProp}
    \cup {Field(ListVal(Payload(n))) : n \in 0..MaxMedia}
    \cup {Field(MediaMapping(n)) : n \in 1..MaxMedia}
MediaPages ==
    {m @@ i :
        m \in {NoAttrs} \cup {[media |-> c] : c \in MediaCollections},
        i \in {NoAttrs} \cup {[images |-> c] : c \in MediaCollections}}

InitMedia ==
    /\ pc = "call"
    /\ arg_obj \in MediaPages
    /\ arg_name = Idle
    /\ arg_default = Idle
    /\ ret = Idle
    /\ SanIdle
    /\ ShapeIdle
    /\ PageIdle
    /\ RenderIdle
    /\ ConvIdle

\* a call _extract_media_from_page(page); every exception is caught at line
\* 196, so the call always returns
ExtractMediaFromPage ==
    /\ pc = "call"
    /\ ret' = extract_media_from_page(arg_obj)
    /\ pc' = "return"
    /\ UNCHANGED <<arg_obj, arg_name, arg_default>>

NextMedia ==
    ExtractMediaFromPage /\ UNCHANGED <<sanVars, shapeVars, pageVars, renderVars, convVars>>

SpecMedia == InitMedia /\ [][NextMedia]_vars

\* the collection found under a name: the value of the member, or what the
\* method returns; None when there is none or reading it fails
CollectionOf(obj, name) ==
    IF name \in DOMAIN obj /\ obj[name].kind \in {"field", "method"} THEN obj[name].v
    ELSE NoneVal
\* every element of a collection as one item tagged with the source, its
\* index the key in a mapping and the position in a sequence
Wrapped(c, source) ==
    IF c.kind \in {"list", "tuple"}
    THEN [i \in 1..Len(c.items) |-> [index |-> IntVal(i - 1), data |-> c.items[i], source |-> source]]
    ELSE IF c.kind = "dict"
    THEN [i \in 1..Len(c.items) |->
             [index |-> c.items[i][1], data |-> c.items[i][2], source |-> source]]
    ELSE <<>>

\* C25: _extract_media_from_page probes the media collection and the images
\* collection of the page independently and returns the items of the media
\* collection followed by those of the images collection; every element of
\* a collection that is found is one item tagged with its source, whose
\* index is the key in a mapping and the position in a sequence.
C25_BothCollectionsWrapped ==
    pc = "return" =>
        ret = Wrapped(CollectionOf(arg_obj, "media"), "page.media")
              \o Wrapped(CollectionOf(arg_obj, "images"), "page.images")
\* the same for pages whose collections are lists, or a mapping under media
C25_ListsAndMediaMapping ==
    (/\ pc = "return"
     /\ CollectionOf(arg_obj, "media").kind \in {"none", "list", "dict"}
     /\ CollectionOf(arg_obj, "images").kind \in {"none", "list"}
     /\ \A n \in DOMAIN arg_obj : arg_obj[n].kind # "badprop") =>
        ret = Wrapped(CollectionOf(arg_obj, "media"), "page.media")
              \o Wrapped(CollectionOf(arg_obj, "images"), "page.images")

\* the endpoints of an edge line
FromOf(l) == SubSeq(l, 2, Position(l, Arrow) - 1)
ToOf(l) == SubSeq(l, Position(l, Arrow) + 1, Len(l))

\* C26: in every diagram block each edge line, of an explicit connection or
\* of the fallback, has both endpoints equal to the identifier of a
\* node-declaration line of the same block.
C26_EdgesBetweenDeclaredNodes ==
    pc = "return" =>
        \A i \in 1..Len(EdgeLines(mermaid)) :
            /\ FromOf(EdgeLines(mermaid)[i]) \in Range(NodeIds(mermaid))
            /\ ToOf(EdgeLines(mermaid)[i]) \in Range(NodeIds(mermaid))
\* the same for pages all of whose shapes have an identifier and whose
\* connections do not name a sub-shape entry of the label map
C26_IdentifiedShapes ==
    (/\ pc = "return"
     /\ \A i \in 1..Len(page_data.shapes) : IsTrue(page_data.shapes[i].id)
     /\ \A i \in 1..Len(page_data.connections) :
           \A e \in 1..2 : "_" \notin Range(page_data.connections[i][e])) =>
        \A i \in 1..Len(EdgeLines(mermaid)) :
            /\ FromOf(EdgeLines(mermaid)[i]) \in Range(NodeIds(mermaid))
            /\ ToOf(EdgeLines(mermaid)[i]) \in Range(NodeIds(mermaid))

====
